---- MODULE Spec2Model ----
(***************************************************************************)
(* Model of the OpenClaw gateway client (src/src/lib/openclaw/client.ts):   *)
(* the stream reconciliation engine, the session scope filter, the          *)
(* connection (sockets, handshake, reconnection) and the request            *)
(* correlator of the class OpenClawClient.                                  *)
(*                                                                         *)
(* Text is a sequence of symbols.  A symbol stands for a fragment of        *)
(* characters ("a", "b", a newline, "HEARTBEAT", "_ok", ".MD", one ANSI     *)
(* escape sequence).  No fragment is a prefix or a suffix of another and    *)
(* none overlaps another, so startsWith, endsWith, slice, includes and the  *)
(* overlap search of the code give on symbols what they give on the         *)
(* characters.  Lengths and offsets count symbols.                          *)
(***************************************************************************)
EXTENDS Naturals, Sequences, FiniteSets, TLC

VARIABLES
    activeStreamSource,   \* 'chat' | 'agent' | null
    assistantStreamText,  \* accumulated canonical text
    assistantStreamMode,  \* 'delta' | 'cumulative' | null
    currentBlockOffset,   \* start of the current content block
    streamStarted,
    activeRunId,
    activeSessionKey,
    primarySessionKey,    \* the session pin
    emitted,              \* emit() calls made by the last operation, in order
    delivered,            \* history: streamChunk texts emitted since the last reset
    op,                   \* the last operation and its input
    pre,                  \* the engine state the last operation started from
    requestedPin,         \* history: the key of the caller's last setPrimarySessionKey
    sent,                 \* history: the data.delta texts received since the last reset
    ended,                \* history: the text held when streamEnd was last emitted
    timedOut,             \* history: the ids of the calls that were rejected by their timeout
    ws,                   \* this.ws: the index of a socket in sockets, 0 for null
    sockets,              \* every WebSocket the client constructed, in order
    authenticated,
    requestId,
    pendingRequests,      \* the keys of the Map: [id, method]
    timers,               \* the 30 s timeouts that call() armed and that have not fired
    reconnectAttempts,
    maxReconnectAttempts,
    reconnectTimers,      \* the delays of the scheduled reconnection timeouts
    settled,              \* resolve and reject calls made by the last operation, in order
    decoding,             \* Blob frames received whose text() has not resolved yet
    eventHandlers,        \* the subscriptions [event, handler], in insertion order
    invoked,              \* handler invocations made by the last operation, in order
    url                   \* this.url: the endpoint given to the constructor

connVars == <<ws, sockets, authenticated, requestId, pendingRequests, timers,
              reconnectAttempts, maxReconnectAttempts, reconnectTimers, settled,
              decoding, url>>

vars == <<activeStreamSource, assistantStreamText, assistantStreamMode,
          currentBlockOffset, streamStarted, activeRunId, activeSessionKey,
          primarySessionKey, emitted, delivered, op, pre, requestedPin, sent,
          ended, timedOut, connVars, eventHandlers, invoked>>

----------------------------------------------------------------------------
(* JavaScript values *)

NULL  == "<null>"
UNDEF == "<undefined>"
NUM   == "<number>"          \* a truthy value that is not a string

IsString(v) == v \notin {NULL, UNDEF, NUM}
Truthy(v)   == v \notin {NULL, UNDEF, ""}

\* A text field that is not a string (absent).
Absent == <<UNDEF>>
IsText(t) == t # Absent

NL  == "\n"
ESC == "ESC[0m"

----------------------------------------------------------------------------
(* Bounds *)

MaxIn   == 2     \* longest text carried by one event
MaxText == 5     \* longest accumulated text

TextsUpTo(A, n) == UNION {[1..k -> A] : k \in 0..n}

----------------------------------------------------------------------------
(* String helpers *)

StartsWith(s, p) == Len(p) <= Len(s) /\ SubSeq(s, 1, Len(p)) = p
EndsWith(s, p)   == Len(p) <= Len(s) /\ SubSeq(s, Len(s) - Len(p) + 1, Len(s)) = p
Slice(s, i)      == SubSeq(s, i + 1, Len(s))          \* s.slice(i)
Includes(s, p)   == \E i \in 0..(Len(s) - Len(p)) : SubSeq(s, i + 1, i + Len(p)) = p
Min(a, b)        == IF a <= b THEN a ELSE b

ToUpperCase(t) ==
    [i \in DOMAIN t |->
        CASE t[i] = "a" -> "A"
          [] t[i] = "b" -> "B"
          [] t[i] = "_ok" -> "_OK"
          [] t[i] = "heartbeat" -> "HEARTBEAT"
          [] OTHER -> t[i]]

stripAnsi(text) == SelectSeq(text, LAMBDA c : c # ESC)

isHeartbeatContent(text) ==
    LET upper == ToUpperCase(text)
    IN  Includes(upper, <<"HEARTBEAT", "_OK">>) \/ Includes(upper, <<"HEARTBEAT", ".MD">>)

\* content is a string or absent; arrays and objects are not drawn as inputs.
extractTextFromContent(content) ==
    stripAnsi(IF IsText(content) THEN content ELSE <<>>)

\* result is a string, undefined (Absent) or null; result objects are not drawn.
NullValue == <<NULL>>
extractToolResultText(result) ==
    IF result \in {Absent, NullValue} THEN Absent ELSE result

----------------------------------------------------------------------------
(* The engine, as functions of the client's fields.  s is the record of the  *)
(* fields; every method returns the record after its assignments.            *)

Fields ==
    [activeStreamSource  |-> activeStreamSource,
     assistantStreamText |-> assistantStreamText,
     assistantStreamMode |-> assistantStreamMode,
     currentBlockOffset  |-> currentBlockOffset,
     streamStarted       |-> streamStarted,
     activeRunId         |-> activeRunId,
     activeSessionKey    |-> activeSessionKey,
     primarySessionKey   |-> primarySessionKey,
     emitted             |-> <<>>,
     delivered           |-> delivered,
     eventHandlers       |-> eventHandlers,
     invoked             |-> <<>>]

\* The handlers callers subscribe; a call of hThrows throws.
Handlers == {"h1", "h2", "hThrows"}
Throws(handler) == handler = "hThrows"

\* Mutant of on: the handlers of an event name are kept in a list, so that a
\* handler subscribed twice is held twice.
on_AddsAgain(s, event, handler) ==
    [s EXCEPT !.eventHandlers = Append(@, [event |-> event, handler |-> handler])]

\* on(event, handler): the Set of the event name keeps insertion order and
\* holds a handler once.
on(s, event, handler) ==
    LET entry == [event |-> event, handler |-> handler]
    IN  IF \E i \in DOMAIN s.eventHandlers : s.eventHandlers[i] = entry
        THEN s
        ELSE [s EXCEPT !.eventHandlers = Append(@, entry)]

\* off(event, handler)
off(s, event, handler) ==
    [s EXCEPT !.eventHandlers =
        SelectSeq(@, LAMBDA x : x # [event |-> event, handler |-> handler])]

\* this.eventHandlers.get(event), in the order of forEach.
HandlersOf(s, event) == SelectSeq(s.eventHandlers, LAMBDA x : x.event = event)

\* Mutant of emit: a handler's exception is not caught and ends the forEach.
emit_StopsAtThrow(s, event, payload) ==
    LET handlers == HandlersOf(s, event)
        thrown   == {i \in DOMAIN handlers : Throws(handlers[i].handler)}
        last     == IF thrown = {} THEN Len(handlers)
                    ELSE CHOOSE i \in thrown : \A j \in thrown : i <= j
    IN  [s EXCEPT !.emitted = Append(@, [event |-> event, payload |-> payload]),
                  !.delivered = IF event = "streamChunk" THEN @ \o payload.text ELSE @,
                  !.invoked = @ \o [i \in 1..last |->
                                      [event |-> event, handler |-> handlers[i].handler,
                                       payload |-> payload,
                                       caught |-> FALSE]]]

\* emit(event, payload): every handler of the event is called in order, and
\* what a handler throws is caught.  The publish is recorded in emitted, the
\* calls in invoked; delivered is the history of the chunk texts published.
emit(s, event, payload) ==
    LET handlers == HandlersOf(s, event)
    IN  [s EXCEPT !.emitted = Append(@, [event |-> event, payload |-> payload]),
                  !.delivered = IF event = "streamChunk" THEN @ \o payload.text ELSE @,
                  !.invoked = @ \o [i \in 1..Len(handlers) |->
                                      [event |-> event, handler |-> handlers[i].handler,
                                       payload |-> payload,
                                       caught |-> Throws(handlers[i].handler)]]]

\* Mutant of resetStreamState: the accumulated text and the block offset are
\* kept.
resetStreamState_KeepsText(s) ==
    [s EXCEPT !.activeStreamSource = NULL,
              !.assistantStreamMode = NULL,
              !.streamStarted = FALSE,
              !.activeRunId = NULL,
              !.activeSessionKey = NULL,
              !.primarySessionKey = NULL,
              !.delivered = <<>>]

resetStreamState(s) ==
    [s EXCEPT !.activeStreamSource = NULL,
              !.assistantStreamText = <<>>,
              !.assistantStreamMode = NULL,
              !.currentBlockOffset = 0,
              !.streamStarted = FALSE,
              !.activeRunId = NULL,
              !.activeSessionKey = NULL,
              !.primarySessionKey = NULL,
              !.delivered = <<>>]

\* Mutant of maybeUpdateRunAndSession: streamSessionKey is emitted for every
\* string session key, changed or not.
maybeUpdateRunAndSession_AlwaysEmits(s, runId, sessionKey) ==
    LET s1 == IF IsString(runId) /\ ~Truthy(s.activeRunId)
              THEN [s EXCEPT !.activeRunId = runId]
              ELSE s
    IN  IF IsString(sessionKey) /\ Truthy(sessionKey)
        THEN emit([s1 EXCEPT !.activeSessionKey = sessionKey],
                  "streamSessionKey", [runId |-> runId, sessionKey |-> sessionKey])
        ELSE s1

\* Mutant of maybeUpdateRunAndSession: a run id other than the active one
\* resets the stream state and is adopted.
maybeUpdateRunAndSession_ResetsOnMismatch(s, runId, sessionKey) ==
    LET s0 == IF IsString(runId) /\ Truthy(s.activeRunId) /\ s.activeRunId # runId
              THEN resetStreamState(s)
              ELSE s
        s1 == IF IsString(runId) /\ ~Truthy(s0.activeRunId)
              THEN [s0 EXCEPT !.activeRunId = runId]
              ELSE s0
    IN  IF IsString(sessionKey) /\ Truthy(sessionKey) /\ s1.activeSessionKey # sessionKey
        THEN emit([s1 EXCEPT !.activeSessionKey = sessionKey],
                  "streamSessionKey", [runId |-> runId, sessionKey |-> sessionKey])
        ELSE s1

maybeUpdateRunAndSession(s, runId, sessionKey) ==
    LET s1 == IF IsString(runId) /\ ~Truthy(s.activeRunId)
              THEN [s EXCEPT !.activeRunId = runId]
              ELSE s
    IN  IF IsString(sessionKey) /\ Truthy(sessionKey) /\ s1.activeSessionKey # sessionKey
        THEN emit([s1 EXCEPT !.activeSessionKey = sessionKey],
                  "streamSessionKey", [runId |-> runId, sessionKey |-> sessionKey])
        ELSE s1

\* Mutant of ensureStream: the source is taken over even when another source
\* holds the stream.
ensureStream_TakesOver(s, source, modeHint, runId) ==
    LET s1 == maybeUpdateRunAndSession(s, runId, UNDEF)
        s2 == [s1 EXCEPT !.activeStreamSource = source]
        s3 == IF ~Truthy(s2.assistantStreamMode)
              THEN [s2 EXCEPT !.assistantStreamMode = modeHint]
              ELSE s2
    IN  IF ~s3.streamStarted
        THEN emit([s3 EXCEPT !.streamStarted = TRUE],
                  "streamStart", [sessionKey |-> s3.activeSessionKey])
        ELSE s3

\* Mutant of ensureStream: streamStart is emitted for every event of the
\* source that holds the stream, started or not.
ensureStream_AlwaysStarts(s, source, modeHint, runId) ==
    LET s1 == maybeUpdateRunAndSession(s, runId, UNDEF)
        s2 == IF s1.activeStreamSource = NULL
              THEN [s1 EXCEPT !.activeStreamSource = source]
              ELSE s1
    IN  IF s2.activeStreamSource # source
        THEN s2
        ELSE LET s3 == IF ~Truthy(s2.assistantStreamMode)
                       THEN [s2 EXCEPT !.assistantStreamMode = modeHint]
                       ELSE s2
             IN  emit([s3 EXCEPT !.streamStarted = TRUE],
                      "streamStart", [sessionKey |-> s3.activeSessionKey])

ensureStream(s, source, modeHint, runId) ==
    LET s1 == maybeUpdateRunAndSession(s, runId, UNDEF)
        s2 == IF s1.activeStreamSource = NULL
              THEN [s1 EXCEPT !.activeStreamSource = source]
              ELSE s1
    IN  IF s2.activeStreamSource # source
        THEN s2
        ELSE LET s3 == IF ~Truthy(s2.assistantStreamMode)
                       THEN [s2 EXCEPT !.assistantStreamMode = modeHint]
                       ELSE s2
             IN  IF ~s3.streamStarted
                 THEN emit([s3 EXCEPT !.streamStarted = TRUE],
                           "streamStart", [sessionKey |-> s3.activeSessionKey])
                 ELSE s3

separator == <<NL, NL>>

\* Mutant of applyStreamText: when the next text extends the held text, the
\* whole next text is published instead of the part that was added.
applyStreamText_EmitsWhole(s, nextText) ==
    LET previous == s.assistantStreamText
        sk == s.activeSessionKey
    IN  IF nextText = <<>> THEN s
        ELSE IF nextText = previous THEN s
        ELSE IF previous = <<>>
        THEN emit([s EXCEPT !.assistantStreamText = nextText],
                  "streamChunk", [text |-> nextText, sessionKey |-> sk])
        ELSE IF StartsWith(nextText, previous)
        THEN emit([s EXCEPT !.assistantStreamText = nextText],
                  "streamChunk", [text |-> nextText, sessionKey |-> sk])
        ELSE emit([s EXCEPT !.assistantStreamText = @ \o separator \o nextText],
                  "streamChunk", [text |-> separator \o nextText, sessionKey |-> sk])

applyStreamText(s, nextText) ==
    LET previous == s.assistantStreamText
        sk == s.activeSessionKey
    IN  IF nextText = <<>> THEN s
        ELSE IF nextText = previous THEN s
        ELSE IF previous = <<>>
        THEN emit([s EXCEPT !.assistantStreamText = nextText],
                  "streamChunk", [text |-> nextText, sessionKey |-> sk])
        ELSE IF StartsWith(nextText, previous)
        THEN LET append == Slice(nextText, Len(previous))
                 s1 == [s EXCEPT !.assistantStreamText = nextText]
             IN  IF append # <<>>
                 THEN emit(s1, "streamChunk", [text |-> append, sessionKey |-> sk])
                 ELSE s1
        ELSE emit([s EXCEPT !.assistantStreamText = @ \o separator \o nextText],
                  "streamChunk", [text |-> separator \o nextText, sessionKey |-> sk])

\* The longest i in 1..maxOverlap with previous.endsWith(incoming.slice(0, i)),
\* or 0 when the loop finds none.
Overlap(previous, incoming) ==
    LET maxOverlap == Min(Len(previous), Len(incoming))
        hits == {i \in 1..maxOverlap : EndsWith(previous, SubSeq(incoming, 1, i))}
    IN  IF hits = {} THEN 0 ELSE CHOOSE i \in hits : \A j \in hits : j <= i

\* Mutant of mergeIncoming: a delta that does not extend the held text is
\* appended whole (no suffix test, no overlap search).
mergeIncoming_AppendsWhole(s, incoming, modeHint) ==
    LET previous == s.assistantStreamText
        currentBlock == Slice(previous, s.currentBlockOffset)
    IN  IF modeHint = "cumulative"
        THEN IF previous = <<>> THEN [state |-> s, value |-> incoming]
             ELSE IF incoming = previous THEN [state |-> s, value |-> previous]
             ELSE IF StartsWith(incoming, previous) THEN [state |-> s, value |-> incoming]
             ELSE IF currentBlock # <<>> /\ StartsWith(incoming, currentBlock)
             THEN [state |-> s,
                   value |-> SubSeq(previous, 1, s.currentBlockOffset) \o incoming]
             ELSE [state |-> [s EXCEPT !.currentBlockOffset = Len(previous) + Len(separator)],
                   value |-> previous \o separator \o incoming]
        ELSE IF previous # <<>> /\ StartsWith(incoming, previous)
             THEN [state |-> s, value |-> incoming]
        ELSE [state |-> s, value |-> previous \o incoming]

\* Mutant of mergeIncoming: a new content block is appended without moving
\* currentBlockOffset.
mergeIncoming_KeepsOffset(s, incoming, modeHint) ==
    LET previous == s.assistantStreamText
        currentBlock == Slice(previous, s.currentBlockOffset)
    IN  IF modeHint = "cumulative"
        THEN IF previous = <<>> THEN [state |-> s, value |-> incoming]
             ELSE IF incoming = previous THEN [state |-> s, value |-> previous]
             ELSE IF StartsWith(incoming, previous) THEN [state |-> s, value |-> incoming]
             ELSE IF currentBlock # <<>> /\ StartsWith(incoming, currentBlock)
             THEN [state |-> s,
                   value |-> SubSeq(previous, 1, s.currentBlockOffset) \o incoming]
             ELSE [state |-> s, value |-> previous \o separator \o incoming]
        ELSE IF previous # <<>> /\ StartsWith(incoming, previous)
             THEN [state |-> s, value |-> incoming]
        ELSE IF previous # <<>> /\ EndsWith(previous, incoming)
             THEN [state |-> s, value |-> previous]
        ELSE IF previous # <<>> /\ Overlap(previous, incoming) > 0
             THEN [state |-> s,
                   value |-> previous \o Slice(incoming, Overlap(previous, incoming))]
        ELSE [state |-> s, value |-> previous \o incoming]

\* Mutant of mergeIncoming: a cumulative report that extends neither the
\* accumulated text nor the current block rewinds the stream to its text.
mergeIncoming_Rewinds(s, incoming, modeHint) ==
    LET previous == s.assistantStreamText
        currentBlock == Slice(previous, s.currentBlockOffset)
    IN  IF modeHint = "cumulative"
        THEN IF previous = <<>> THEN [state |-> s, value |-> incoming]
             ELSE IF incoming = previous THEN [state |-> s, value |-> previous]
             ELSE IF StartsWith(incoming, previous) THEN [state |-> s, value |-> incoming]
             ELSE IF currentBlock # <<>> /\ StartsWith(incoming, currentBlock)
             THEN [state |-> s,
                   value |-> SubSeq(previous, 1, s.currentBlockOffset) \o incoming]
             ELSE [state |-> [s EXCEPT !.assistantStreamText = <<>>,
                                       !.currentBlockOffset = 0],
                   value |-> incoming]
        ELSE IF previous # <<>> /\ StartsWith(incoming, previous)
             THEN [state |-> s, value |-> incoming]
        ELSE IF previous # <<>> /\ EndsWith(previous, incoming)
             THEN [state |-> s, value |-> previous]
        ELSE IF previous # <<>> /\ Overlap(previous, incoming) > 0
             THEN [state |-> s,
                   value |-> previous \o Slice(incoming, Overlap(previous, incoming))]
        ELSE [state |-> s, value |-> previous \o incoming]

\* Returns [state, value]: the record after the assignment to
\* currentBlockOffset, and the returned string.
mergeIncoming(s, incoming, modeHint) ==
    LET previous == s.assistantStreamText
        currentBlock == Slice(previous, s.currentBlockOffset)
    IN  IF modeHint = "cumulative"
        THEN IF previous = <<>> THEN [state |-> s, value |-> incoming]
             ELSE IF incoming = previous THEN [state |-> s, value |-> previous]
             ELSE IF StartsWith(incoming, previous) THEN [state |-> s, value |-> incoming]
             ELSE IF currentBlock # <<>> /\ StartsWith(incoming, currentBlock)
             THEN [state |-> s,
                   value |-> SubSeq(previous, 1, s.currentBlockOffset) \o incoming]
             ELSE [state |-> [s EXCEPT !.currentBlockOffset = Len(previous) + Len(separator)],
                   value |-> previous \o separator \o incoming]
        ELSE IF previous # <<>> /\ StartsWith(incoming, previous)
             THEN [state |-> s, value |-> incoming]
        ELSE IF previous # <<>> /\ EndsWith(previous, incoming)
             THEN [state |-> s, value |-> previous]
        ELSE IF previous # <<>> /\ Overlap(previous, incoming) > 0
             THEN [state |-> s,
                   value |-> previous \o Slice(incoming, Overlap(previous, incoming))]
        ELSE [state |-> s, value |-> previous \o incoming]

\* Mutant of shouldProcessEvent: while a pin is set only events that carry the
\* pinned key pass.
shouldProcessEvent_RequiresKey(s, sessionKey) ==
    IF ~Truthy(s.primarySessionKey) THEN TRUE
    ELSE sessionKey = s.primarySessionKey

shouldProcessEvent(s, sessionKey) ==
    IF ~Truthy(s.primarySessionKey) THEN TRUE
    ELSE IF ~Truthy(sessionKey) \/ ~IsString(sessionKey) THEN TRUE
    ELSE sessionKey = s.primarySessionKey

\* `msg-${Date.now()}` and `tool-${Date.now()}`
GeneratedMsgId  == "msg-<now>"
GeneratedToolId == "tool-<now>"

Or(a, b) == IF Truthy(a) THEN a ELSE b               \* a || b

chatDelta(s, payload, eventSessionKey) ==
    LET s1 == maybeUpdateRunAndSession(s, payload.runId, eventSessionKey)
        s2 == ensureStream(s1, "chat", "cumulative", payload.runId)
        rawText == IF IsText(payload.content)
                   THEN extractTextFromContent(payload.content)
                   ELSE IF IsText(payload.delta) THEN stripAnsi(payload.delta) ELSE <<>>
    IN  IF s2.activeStreamSource # "chat" THEN s2
        ELSE IF rawText # <<>> /\ ~isHeartbeatContent(rawText)
        THEN LET m == mergeIncoming(s2, rawText, "cumulative")
             IN  applyStreamText(m.state, m.value)
        ELSE s2

\* Mutant of chatFinal: streamEnd is emitted whether or not a stream was started.
chatFinal_AlwaysEnds(s, payload, eventSessionKey) ==
    LET s1 == maybeUpdateRunAndSession(s, payload.runId, eventSessionKey)
        text == extractTextFromContent(payload.content)
        id == IF IsString(payload.msgId) /\ Truthy(payload.msgId) THEN payload.msgId
              ELSE IF IsString(payload.runId) /\ Truthy(payload.runId) THEN payload.runId
              ELSE GeneratedMsgId
        s2 == IF payload.message /\ text # <<>> /\ ~isHeartbeatContent(text)
              THEN emit(s1, "message",
                        [id |-> id, role |-> payload.role, content |-> text,
                         sessionKey |-> eventSessionKey])
              ELSE s1
    IN  IF s1.activeStreamSource = "agent" THEN s1
        ELSE resetStreamState(emit(s2, "streamEnd", [sessionKey |-> eventSessionKey]))

chatFinal(s, payload, eventSessionKey) ==
    LET s1 == maybeUpdateRunAndSession(s, payload.runId, eventSessionKey)
        text == extractTextFromContent(payload.content)
        id == IF IsString(payload.msgId) /\ Truthy(payload.msgId) THEN payload.msgId
              ELSE IF IsString(payload.runId) /\ Truthy(payload.runId) THEN payload.runId
              ELSE GeneratedMsgId
        s2 == IF payload.message /\ text # <<>> /\ ~isHeartbeatContent(text)
              THEN emit(s1, "message",
                        [id |-> id, role |-> payload.role, content |-> text,
                         sessionKey |-> eventSessionKey])
              ELSE s1
        s3 == IF s2.streamStarted
              THEN emit(s2, "streamEnd", [sessionKey |-> eventSessionKey])
              ELSE s2
    IN  IF s1.activeStreamSource = "agent" THEN s1
        ELSE resetStreamState(s3)

agentAssistant(s, payload, eventSessionKey) ==
    LET s1 == maybeUpdateRunAndSession(s, payload.runId, eventSessionKey)
        hasCanonicalText == IsText(payload.text)
        s2 == ensureStream(s1, "agent", IF hasCanonicalText THEN "cumulative" ELSE "delta",
                           payload.runId)
        canonicalText == IF IsText(payload.text) THEN stripAnsi(payload.text) ELSE <<>>
        deltaText == IF IsText(payload.delta) THEN stripAnsi(payload.delta) ELSE <<>>
    IN  IF s2.activeStreamSource # "agent" THEN s2
        ELSE IF canonicalText # <<>> /\ ~isHeartbeatContent(canonicalText)
        THEN LET m == mergeIncoming(s2, canonicalText, "cumulative")
             IN  applyStreamText(m.state, m.value)
        ELSE IF deltaText # <<>> /\ ~isHeartbeatContent(deltaText)
        THEN LET m == mergeIncoming(s2, deltaText, "delta")
             IN  applyStreamText(m.state, m.value)
        ELSE s2

\* Mutant of agentTool: streamStart is emitted for every tool event.
agentTool_AlwaysStarts(s, payload, eventSessionKey) ==
    LET s1 == maybeUpdateRunAndSession(s, payload.runId, eventSessionKey)
        s2 == emit([s1 EXCEPT !.streamStarted = TRUE],
                   "streamStart", [sessionKey |-> eventSessionKey])
        rawResult == extractToolResultText(payload.result)
    IN  emit(s2, "toolCall",
             [toolCallId |-> Or(payload.toolCallId, Or(payload.id, GeneratedToolId)),
              name       |-> Or(payload.name, Or(payload.toolName, "unknown")),
              phase      |-> Or(payload.dataPhase,
                                IF payload.result # Absent THEN "result" ELSE "start"),
              result     |-> IF IsText(rawResult) /\ rawResult # <<>>
                             THEN stripAnsi(rawResult) ELSE Absent,
              sessionKey |-> eventSessionKey])

\* Mutant of agentTool: the tool event claims the stream for the agent source.
agentTool_ClaimsStream(s, payload, eventSessionKey) ==
    LET s1 == maybeUpdateRunAndSession(s, payload.runId, eventSessionKey)
        s2 == ensureStream(s1, "agent", "delta", payload.runId)
        rawResult == extractToolResultText(payload.result)
    IN  emit(s2, "toolCall",
             [toolCallId |-> Or(payload.toolCallId, Or(payload.id, GeneratedToolId)),
              name       |-> Or(payload.name, Or(payload.toolName, "unknown")),
              phase      |-> Or(payload.dataPhase,
                                IF payload.result # Absent THEN "result" ELSE "start"),
              result     |-> IF IsText(rawResult) /\ rawResult # <<>>
                             THEN stripAnsi(rawResult) ELSE Absent,
              sessionKey |-> eventSessionKey])

agentTool(s, payload, eventSessionKey) ==
    LET s1 == maybeUpdateRunAndSession(s, payload.runId, eventSessionKey)
        s2 == IF ~s1.streamStarted
              THEN emit([s1 EXCEPT !.streamStarted = TRUE],
                        "streamStart", [sessionKey |-> eventSessionKey])
              ELSE s1
        rawResult == extractToolResultText(payload.result)
        toolPayload ==
            [toolCallId |-> Or(payload.toolCallId, Or(payload.id, GeneratedToolId)),
             name       |-> Or(payload.name, Or(payload.toolName, "unknown")),
             phase      |-> Or(payload.dataPhase,
                               IF payload.result # Absent THEN "result" ELSE "start"),
             result     |-> IF IsText(rawResult) /\ rawResult # <<>>
                            THEN stripAnsi(rawResult) ELSE Absent,
             sessionKey |-> eventSessionKey]
    IN  emit(s2, "toolCall", toolPayload)

agentLifecycle(s, payload, eventSessionKey) ==
    LET s1 == maybeUpdateRunAndSession(s, payload.runId, eventSessionKey)
        phase == payload.dataPhase
        state == payload.dataState
    IN  IF phase = "end" \/ phase = "error" \/ state = "complete" \/ state = "error"
        THEN IF s1.activeStreamSource = "agent" /\ s1.streamStarted
             THEN resetStreamState(emit(s1, "streamEnd", [sessionKey |-> eventSessionKey]))
             ELSE s1
        ELSE s1

\* Mutant of handleNotification: the detection signal is raised for every
\* session key that differs from the pin, also while no pin is set.
handleNotification_DetectsUnpinned(s, event, payload) ==
    LET eventSessionKey == payload.sessionKey
        s0 == IF Truthy(eventSessionKey) /\ eventSessionKey # s.primarySessionKey
              THEN emit(s, "subagentDetected", [sessionKey |-> eventSessionKey])
              ELSE s
    IN  CASE event = "chat" ->
               IF ~shouldProcessEvent(s0, eventSessionKey) THEN s0
               ELSE IF payload.state = "delta" THEN chatDelta(s0, payload, eventSessionKey)
               ELSE IF payload.state = "final" THEN chatFinal(s0, payload, eventSessionKey)
               ELSE s0
          [] event = "presence" -> emit(s0, "agentStatus", payload)
          [] event = "agent" ->
               IF ~shouldProcessEvent(s0, eventSessionKey) THEN s0
               ELSE IF payload.stream = "assistant"
                    THEN agentAssistant(s0, payload, eventSessionKey)
               ELSE IF payload.stream = "tool" THEN agentTool(s0, payload, eventSessionKey)
               ELSE IF payload.stream = "lifecycle"
                    THEN agentLifecycle(s0, payload, eventSessionKey)
               ELSE s0
          [] OTHER -> emit(s0, event, payload)

\* Mutant of handleNotification: the run and the session of an agent event
\* are recorded before the session filter is consulted.
handleNotification_TracksBeforeFilter(s, event, payload) ==
    LET eventSessionKey == payload.sessionKey
        s0 == IF Truthy(s.primarySessionKey) /\ Truthy(eventSessionKey)
                 /\ eventSessionKey # s.primarySessionKey
              THEN emit(s, "subagentDetected", [sessionKey |-> eventSessionKey])
              ELSE s
        s1 == maybeUpdateRunAndSession(s0, payload.runId, eventSessionKey)
    IN  CASE event = "chat" ->
               IF ~shouldProcessEvent(s0, eventSessionKey) THEN s0
               ELSE IF payload.state = "delta" THEN chatDelta(s0, payload, eventSessionKey)
               ELSE IF payload.state = "final" THEN chatFinal(s0, payload, eventSessionKey)
               ELSE s0
          [] event = "presence" -> emit(s0, "agentStatus", payload)
          [] event = "agent" ->
               IF ~shouldProcessEvent(s1, eventSessionKey) THEN s1
               ELSE IF payload.stream = "assistant"
                    THEN agentAssistant(s0, payload, eventSessionKey)
               ELSE IF payload.stream = "tool" THEN agentTool(s0, payload, eventSessionKey)
               ELSE IF payload.stream = "lifecycle"
                    THEN agentLifecycle(s0, payload, eventSessionKey)
               ELSE s0
          [] OTHER -> emit(s0, event, payload)

handleNotification(s, event, payload) ==
    LET eventSessionKey == payload.sessionKey
        s0 == IF Truthy(s.primarySessionKey) /\ Truthy(eventSessionKey)
                 /\ eventSessionKey # s.primarySessionKey
              THEN emit(s, "subagentDetected", [sessionKey |-> eventSessionKey])
              ELSE s
    IN  CASE event = "chat" ->
               IF ~shouldProcessEvent(s0, eventSessionKey) THEN s0
               ELSE IF payload.state = "delta" THEN chatDelta(s0, payload, eventSessionKey)
               ELSE IF payload.state = "final" THEN chatFinal(s0, payload, eventSessionKey)
               ELSE s0
          [] event = "presence" -> emit(s0, "agentStatus", payload)
          [] event = "agent" ->
               IF ~shouldProcessEvent(s0, eventSessionKey) THEN s0
               ELSE IF payload.stream = "assistant"
                    THEN agentAssistant(s0, payload, eventSessionKey)
               ELSE IF payload.stream = "tool" THEN agentTool(s0, payload, eventSessionKey)
               ELSE IF payload.stream = "lifecycle"
                    THEN agentLifecycle(s0, payload, eventSessionKey)
               ELSE s0
          [] OTHER -> emit(s0, event, payload)

setPrimarySessionKey(s, key) == [s EXCEPT !.primarySessionKey = key]

----------------------------------------------------------------------------
(* Inputs: event frames.  The payload record has every field the handler     *)
(* reads; data.phase and data.state are dataPhase and dataState, and          *)
(* message.content, message.id and message.role are content, msgId and role.  *)

Payload0 ==
    [sessionKey |-> UNDEF, runId |-> UNDEF, state |-> UNDEF, stream |-> UNDEF,
     message |-> FALSE, content |-> Absent, msgId |-> UNDEF, role |-> UNDEF,
     delta |-> Absent, text |-> Absent, dataPhase |-> UNDEF, dataState |-> UNDEF,
     toolCallId |-> UNDEF, id |-> UNDEF, name |-> UNDEF, toolName |-> UNDEF,
     result |-> Absent]

From(origin) == [Payload0 EXCEPT !.sessionKey = origin[1], !.runId = origin[2]]

\* delta or message.content carries the text; delta may be absent.
ChatDeltaEvents(origins, texts) ==
    {[event |-> "chat", payload |-> [From(o) EXCEPT !.state = "delta", !.delta = t]] :
        o \in origins, t \in texts \cup {Absent}}
    \cup
    {[event |-> "chat",
      payload |-> [From(o) EXCEPT !.state = "delta", !.message = TRUE, !.content = t,
                                  !.role = "assistant"]] :
        o \in origins, t \in texts}

\* No message; a message with an id; a message without an id.
ChatFinalEvents(origins, texts) ==
    {[event |-> "chat", payload |-> [From(o) EXCEPT !.state = "final"]] : o \in origins}
    \cup
    {[event |-> "chat",
      payload |-> [From(o) EXCEPT !.state = "final", !.message = TRUE, !.content = t,
                                  !.msgId = "msg-1", !.role = "assistant"]] :
        o \in origins, t \in texts \cup {<<>>}}
    \cup
    {[event |-> "chat",
      payload |-> [From(o) EXCEPT !.state = "final", !.message = TRUE,
                                  !.content = <<"a">>, !.role = "assistant"]] :
        o \in origins}

\* data.delta alone, data.text alone, and a heartbeat data.text with a data.delta.
AgentAssistantEvents(origins, texts) ==
    {[event |-> "agent", payload |-> [From(o) EXCEPT !.stream = "assistant", !.delta = t]] :
        o \in origins, t \in texts \cup {Absent}}
    \cup
    {[event |-> "agent", payload |-> [From(o) EXCEPT !.stream = "assistant", !.text = t]] :
        o \in origins, t \in texts \cup {<<>>}}
    \cup
    {[event |-> "agent",
      payload |-> [From(o) EXCEPT !.stream = "assistant", !.text = <<"HEARTBEAT", "_ok">>,
                                  !.delta = <<"a">>]] :
        o \in origins}

ToolShapes ==
    {[toolCallId |-> "tc-1", id |-> UNDEF, name |-> "bash", toolName |-> UNDEF,
      dataPhase |-> "start", result |-> Absent],
     [toolCallId |-> "tc-1", id |-> UNDEF, name |-> "bash", toolName |-> UNDEF,
      dataPhase |-> "result", result |-> <<"a">>],
     [toolCallId |-> UNDEF, id |-> "id-1", name |-> UNDEF, toolName |-> "read_file",
      dataPhase |-> UNDEF, result |-> <<ESC, "a">>],
     [toolCallId |-> UNDEF, id |-> UNDEF, name |-> UNDEF, toolName |-> UNDEF,
      dataPhase |-> UNDEF, result |-> Absent],
     [toolCallId |-> "tc-1", id |-> "id-1", name |-> "bash", toolName |-> "read_file",
      dataPhase |-> UNDEF, result |-> NullValue]}

AgentToolEvents(origins, shapes) ==
    {[event |-> "agent",
      payload |-> [From(o) EXCEPT !.stream = "tool", !.toolCallId = d.toolCallId,
                                  !.id = d.id, !.name = d.name, !.toolName = d.toolName,
                                  !.dataPhase = d.dataPhase, !.result = d.result]] :
        o \in origins, d \in shapes}

\* <<data.phase, data.state>>
LifecycleShapes ==
    {<<"start", UNDEF>>, <<"end", UNDEF>>, <<"error", UNDEF>>,
     <<UNDEF, "complete">>, <<UNDEF, "error">>}

AgentLifecycleEvents(origins, shapes) ==
    {[event |-> "agent",
      payload |-> [From(o) EXCEPT !.stream = "lifecycle", !.dataPhase = d[1],
                                  !.dataState = d[2]]] :
        o \in origins, d \in shapes}

OtherEvents(origins) ==
    {[event |-> n, payload |-> From(o)] : n \in {"presence", "health"}, o \in origins}

----------------------------------------------------------------------------
(* State machine *)

\* The endpoint: a URL is its scheme and its host.
SecureUrl == [scheme |-> "wss", host |-> "gateway"]
PlainUrl  == [scheme |-> "ws", host |-> "gateway"]

\* The fields after new OpenClawClient(u).
Constructed(u) ==
    /\ url = u
    /\ activeStreamSource = NULL
    /\ assistantStreamText = <<>>
    /\ assistantStreamMode = NULL
    /\ currentBlockOffset = 0
    /\ streamStarted = FALSE
    /\ activeRunId = NULL
    /\ activeSessionKey = NULL
    /\ primarySessionKey = NULL
    /\ emitted = <<>>
    /\ delivered = <<>>
    /\ op = [name |-> "new", arg |-> UNDEF]
    /\ pre = [activeStreamSource |-> NULL, assistantStreamText |-> <<>>,
              assistantStreamMode |-> NULL, currentBlockOffset |-> 0,
              streamStarted |-> FALSE, activeRunId |-> NULL, activeSessionKey |-> NULL,
              primarySessionKey |-> NULL, emitted |-> <<>>, delivered |-> <<>>,
              eventHandlers |-> <<>>, invoked |-> <<>>]
    /\ requestedPin = NULL
    /\ sent = <<>>
    /\ ended = <<>>
    /\ timedOut = {}
    /\ ws = 0
    /\ sockets = <<>>
    /\ authenticated = FALSE
    /\ requestId = 0
    /\ pendingRequests = {}
    /\ timers = {}
    /\ reconnectAttempts = 0
    /\ maxReconnectAttempts = 5
    /\ reconnectTimers = <<>>
    /\ settled = <<>>
    /\ decoding = {}
    /\ eventHandlers = <<>>
    /\ invoked = <<>>

Init == Constructed(SecureUrl)

\* The fields take the values of the record r.
Commit(r) ==
    /\ activeStreamSource' = r.activeStreamSource
    /\ assistantStreamText' = r.assistantStreamText
    /\ assistantStreamMode' = r.assistantStreamMode
    /\ currentBlockOffset' = r.currentBlockOffset
    /\ streamStarted' = r.streamStarted
    /\ activeRunId' = r.activeRunId
    /\ activeSessionKey' = r.activeSessionKey
    /\ primarySessionKey' = r.primarySessionKey
    /\ emitted' = r.emitted
    /\ delivered' = r.delivered
    /\ eventHandlers' = r.eventHandlers
    /\ invoked' = r.invoked

\* handleNotification(e.event, e.payload) runs to completion.
Handle(e) ==
    LET r == handleNotification(Fields, e.event, e.payload)
    IN  /\ Len(r.assistantStreamText) <= MaxText
        /\ Commit(r)
        /\ op' = [name |-> "handleNotification", arg |-> e]
        /\ pre' = Fields

\* One event frame is handled.
HandleNotification(e) ==
    /\ Handle(e)
    /\ UNCHANGED <<requestedPin, sent, ended, timedOut, connVars>>

\* One agent assistant event that carries data.delta alone is handled; sent
\* records the deltas received.
HandleDelta(e) ==
    /\ Len(sent) + Len(e.payload.delta) <= MaxText
    /\ Handle(e)
    /\ sent' = sent \o e.payload.delta
    /\ UNCHANGED <<requestedPin, ended, timedOut, connVars>>

SetPrimarySessionKey(key) ==
    /\ Commit(setPrimarySessionKey(Fields, key))
    /\ op' = [name |-> "setPrimarySessionKey", arg |-> key]
    /\ pre' = Fields
    /\ requestedPin' = key
    /\ UNCHANGED <<sent, ended, timedOut, connVars>>

\* Spec: both event families, tool and lifecycle events, heartbeat text, with
\* and without a session key.
Origins == {<<UNDEF, UNDEF>>, <<"s1", "r1">>}
Texts == {<<"a">>, <<"a", "b">>, <<"HEARTBEAT", "_ok">>}
Pins == {NULL, "s1", "s2"}

Notifications ==
    ChatDeltaEvents(Origins, Texts) \cup ChatFinalEvents(Origins, Texts)
    \cup AgentAssistantEvents(Origins, Texts) \cup AgentToolEvents(Origins, ToolShapes)
    \cup AgentLifecycleEvents(Origins, LifecycleShapes) \cup OtherEvents(Origins)

Next ==
    \/ \E e \in Notifications : HandleNotification(e)
    \/ \E key \in Pins : SetPrimarySessionKey(key)

Spec == Init /\ [][Next]_vars

\* SpecText: the text reconciliation, on every text over two letters, by both
\* conventions and both sources, with the events that end a response.
NoOrigin == {<<UNDEF, UNDEF>>}
PlainTexts == TextsUpTo({"a", "b"}, MaxIn) \ {<<>>}

DeltaNotifications ==
    {[event |-> "agent",
      payload |-> [Payload0 EXCEPT !.stream = "assistant", !.delta = t]] : t \in PlainTexts}

TextNotifications ==
    DeltaNotifications
    \cup {[event |-> "agent",
           payload |-> [Payload0 EXCEPT !.stream = "assistant", !.text = t]] :
              t \in PlainTexts}
    \cup {[event |-> "chat",
           payload |-> [Payload0 EXCEPT !.state = "delta", !.delta = t]] : t \in PlainTexts}
    \cup AgentLifecycleEvents(NoOrigin, {<<"end", UNDEF>>})
    \cup {[event |-> "chat", payload |-> [Payload0 EXCEPT !.state = "final"]]}

NextText == \E e \in TextNotifications : HandleNotification(e)

SpecText == Init /\ [][NextText]_vars

\* SpecDelta: one response made of agent delta events alone.
NextDelta == \E e \in DeltaNotifications : HandleDelta(e)

SpecDelta == Init /\ [][NextDelta]_vars

\* SpecHeartbeat: text events whose texts are a heartbeat marker, whole, in
\* pieces and around an escape sequence.
HeartbeatTexts ==
    {<<"a">>, <<"HEARTBEAT">>, <<"_ok">>, <<"HEARTBEAT", "_ok">>,
     <<"HEARTBEAT", ESC, "_ok">>}

HeartbeatNotifications ==
    {[event |-> "agent",
      payload |-> [Payload0 EXCEPT !.stream = "assistant", !.delta = t]] :
         t \in HeartbeatTexts}
    \cup {[event |-> "agent",
           payload |-> [Payload0 EXCEPT !.stream = "assistant", !.text = t]] :
              t \in HeartbeatTexts}
    \cup {[event |-> "chat",
           payload |-> [Payload0 EXCEPT !.state = "delta", !.delta = t]] :
              t \in HeartbeatTexts}
    \cup {[event |-> "chat",
           payload |-> [Payload0 EXCEPT !.state = "final", !.message = TRUE,
                                       !.content = t, !.msgId = "msg-1",
                                       !.role = "assistant"]] : t \in HeartbeatTexts}
    \cup AgentLifecycleEvents(NoOrigin, {<<"end", UNDEF>>})

NextHeartbeat == \E e \in HeartbeatNotifications : HandleNotification(e)

SpecHeartbeat == Init /\ [][NextHeartbeat]_vars

----------------------------------------------------------------------------
(* What the last operation was and what it emitted *)

IsNotification == op.name = "handleNotification"
Event   == op.arg.event
Payload == op.arg.payload

IsChat(state)   == IsNotification /\ Event = "chat" /\ Payload.state = state
IsAgent(stream) == IsNotification /\ Event = "agent" /\ Payload.stream = stream

\* The session filter let the event through.
Accepted == shouldProcessEvent(pre, Payload.sessionKey)

Emissions(name) == SelectSeq(emitted, LAMBDA m : m.event = name)
Emits(name)     == Emissions(name) # <<>>
EmitsOnce(name) == Len(Emissions(name)) = 1

\* The texts of the streamChunk events emitted, in order.
ChunkTexts ==
    [i \in 1..Len(Emissions("streamChunk")) |-> Emissions("streamChunk")[i].payload.text]

\* The one chunk t, or no chunk when t is empty.
OneChunk(t) == IF t = <<>> THEN <<>> ELSE <<t>>

----------------------------------------------------------------------------
(* Claims *)

\* C1: while the agent source holds the stream, a chat delta or chat final
\* event emits no streamChunk, streamStart or streamEnd; while the chat source
\* holds it, an agent assistant or lifecycle event emits none of them.
C1_SourceArbitration ==
    /\ (pre.activeStreamSource = "agent" /\ (IsChat("delta") \/ IsChat("final")))
          => ~Emits("streamChunk") /\ ~Emits("streamStart") /\ ~Emits("streamEnd")
    /\ (pre.activeStreamSource = "chat" /\ (IsAgent("assistant") \/ IsAgent("lifecycle")))
          => ~Emits("streamChunk") /\ ~Emits("streamStart") /\ ~Emits("streamEnd")

\* C1 witness: an accepted chat delta carrying new text was handled while the
\* agent source held the stream with text.
C1_Witness ==
    /\ IsChat("delta") /\ Accepted
    /\ pre.activeStreamSource = "agent" /\ pre.assistantStreamText = <<"a">>
    /\ Payload.delta = <<"a", "b">>
    /\ emitted = <<>>

\* C2: after setPrimarySessionKey(k), k a non-empty string, and until the
\* caller calls it again, no chat or agent event whose sessionKey is another
\* non-empty string emits streamStart, streamChunk, streamEnd, toolCall,
\* message or streamSessionKey.
C2_PinIsolation ==
    (/\ IsNotification /\ Event \in {"chat", "agent"}
     /\ IsString(requestedPin) /\ Truthy(requestedPin)
     /\ IsString(Payload.sessionKey) /\ Truthy(Payload.sessionKey)
     /\ Payload.sessionKey # requestedPin)
    => \A i \in DOMAIN emitted :
          emitted[i].event \notin {"streamStart", "streamChunk", "streamEnd",
                                   "toolCall", "message", "streamSessionKey"}

\* The per-response fields are those of a new client.
StreamStateIsReset ==
    /\ activeStreamSource = NULL /\ assistantStreamText = <<>>
    /\ currentBlockOffset = 0 /\ ~streamStarted
    /\ activeRunId = NULL /\ activeSessionKey = NULL

\* The text a chat final event carries as message content ('' when none).
FinalContent ==
    IF Payload.message /\ IsText(Payload.content) THEN stripAnsi(Payload.content) ELSE <<>>

C7_StartOnFirstChunk ==
    (IsNotification /\ Emits("streamStart"))
    => /\ EmitsOnce("streamStart")
       /\ ~pre.streamStarted
       /\ (Emits("streamChunk") \/ IsAgent("tool"))

\* What a tool event's data normalizes to.
ExpectedToolCall ==
    [toolCallId |-> IF Truthy(Payload.toolCallId) THEN Payload.toolCallId
                    ELSE IF Truthy(Payload.id) THEN Payload.id ELSE GeneratedToolId,
     name       |-> IF Truthy(Payload.name) THEN Payload.name
                    ELSE IF Truthy(Payload.toolName) THEN Payload.toolName ELSE "unknown",
     phase      |-> IF Truthy(Payload.dataPhase) THEN Payload.dataPhase
                    ELSE IF Payload.result # Absent THEN "result" ELSE "start",
     result     |-> IF Payload.result \in {Absent, NullValue, <<>>} THEN Absent
                    ELSE SelectSeq(Payload.result, LAMBDA c : c # ESC),
     sessionKey |-> Payload.sessionKey]

\* C9: an accepted tool event emits exactly one toolCall with the normalized
\* id, name, phase and result; when no stream was started it first emits
\* exactly one streamStart and marks the stream started; when a stream was
\* started it emits no streamStart.
C9_ToolCall ==
    (IsAgent("tool") /\ Accepted)
    => /\ EmitsOnce("toolCall")
       /\ Emissions("toolCall")[1].payload = ExpectedToolCall
       /\ emitted[Len(emitted)].event = "toolCall"
       /\ streamStarted
       /\ IF pre.streamStarted THEN ~Emits("streamStart") ELSE EmitsOnce("streamStart")

\* C9 witness: a tool event with no explicit phase and a result starts the
\* stream: streamStart, then the toolCall with phase 'result'.
C9_Witness ==
    /\ IsAgent("tool") /\ Accepted /\ ~pre.streamStarted
    /\ Payload.dataPhase = UNDEF /\ Payload.result = <<ESC, "a">>
    /\ Len(emitted) = 2
    /\ emitted[1].event = "streamStart"
    /\ emitted[2].event = "toolCall"
    /\ emitted[2].payload.phase = "result" /\ emitted[2].payload.result = <<"a">>

\* C10: a tool event leaves the claimed source, the accumulated text and the
\* block offset as they were.
C10_ToolFrame ==
    IsAgent("tool")
    => /\ activeStreamSource = pre.activeStreamSource
       /\ assistantStreamText = pre.assistantStreamText
       /\ currentBlockOffset = pre.currentBlockOffset

\* C10 witness: a tool event was handled before any text event, and the
\* stream is started but still unclaimed.
C10_Witness ==
    /\ IsAgent("tool") /\ Accepted
    /\ ~pre.streamStarted /\ streamStarted
    /\ activeStreamSource = NULL /\ assistantStreamText = <<>>

\* C3: in a response made of agent delta events alone, the concatenation of
\* the emitted chunk texts equals the concatenation of the deltas.
C3_ChunksEqualDeltas == delivered = sent

\* An agent assistant event that carries data.delta alone.
IsDeltaEvent == IsAgent("assistant") /\ IsText(Payload.delta) /\ ~IsText(Payload.text)

\* The length of the longest prefix of d that is a suffix of p.
LongestSharedEnd(p, d) ==
    CHOOSE k \in 0..Min(Len(p), Len(d)) :
        /\ SubSeq(p, Len(p) - k + 1, Len(p)) = SubSeq(d, 1, k)
        /\ \A j \in (k + 1)..Min(Len(p), Len(d)) :
              SubSeq(p, Len(p) - j + 1, Len(p)) # SubSeq(d, 1, j)

\* C4: for an agent delta event with text D handled while the agent source
\* holds the non-empty text P: if D starts with P the part of D after P is
\* emitted (nothing when D = P) and D is held; else if P ends with D nothing
\* is emitted and P is held; else D without its longest prefix that is a
\* suffix of P is emitted and appended to P.
C4_DeltaRepair ==
    LET P == pre.assistantStreamText
        D == Payload.delta
    IN  (IsDeltaEvent /\ pre.activeStreamSource = "agent" /\ P # <<>> /\ D # <<>>)
        => IF StartsWith(D, P)
           THEN ChunkTexts = OneChunk(SubSeq(D, Len(P) + 1, Len(D)))
                /\ assistantStreamText = D
           ELSE IF EndsWith(P, D)
           THEN ChunkTexts = <<>> /\ assistantStreamText = P
           ELSE LET rest == SubSeq(D, LongestSharedEnd(P, D) + 1, Len(D))
                IN  ChunkTexts = <<rest>> /\ assistantStreamText = P \o rest

\* C4 witness: 'ab' is held and the delta 'ba' arrives; only 'a' is emitted.
C4_Witness ==
    /\ IsDeltaEvent /\ pre.activeStreamSource = "agent"
    /\ pre.assistantStreamText = <<"a", "b">> /\ Payload.delta = <<"b", "a">>
    /\ ChunkTexts = << <<"a">> >>
    /\ assistantStreamText = <<"a", "b", "a">>

\* A cumulative report was merged: agent data.text while the agent source
\* holds the stream, or chat delta text while the chat source holds it.
IsCumulativeReport ==
    \/ IsAgent("assistant") /\ IsText(Payload.text) /\ pre.activeStreamSource = "agent"
    \/ IsChat("delta") /\ IsText(Payload.delta) /\ pre.activeStreamSource = "chat"

Incoming == IF Event = "agent" THEN Payload.text ELSE Payload.delta

C8_NoHeartbeatDelivered ==
    /\ ~isHeartbeatContent(delivered)
    /\ \A i \in DOMAIN emitted :
          emitted[i].event = "message" => ~isHeartbeatContent(emitted[i].payload.content)

----------------------------------------------------------------------------
(* SpecFilter: the session filter.  Events carry no session key, an empty    *)
(* one, one that is not a string, or the key of one of two sessions; the pin *)
(* is null, empty, or one of the two keys.                                   *)

SessionKeys == {UNDEF, "", NUM, "s1", "s2"}
FilterOrigins == {<<k, UNDEF>> : k \in SessionKeys}
FilterPins == {NULL, "", "s1", "s2"}

FilterNotifications ==
    ChatDeltaEvents(FilterOrigins, {<<"a">>})
    \cup ChatFinalEvents(FilterOrigins, {<<"a">>})
    \cup AgentAssistantEvents(FilterOrigins, {<<"a">>})
    \cup AgentToolEvents(FilterOrigins,
            {[toolCallId |-> "tc-1", id |-> UNDEF, name |-> "bash", toolName |-> UNDEF,
              dataPhase |-> "start", result |-> Absent]})
    \cup AgentLifecycleEvents(FilterOrigins, {<<"end", UNDEF>>})
    \cup OtherEvents(FilterOrigins)

NextFilter ==
    \/ \E e \in FilterNotifications : HandleNotification(e)
    \/ \E key \in FilterPins : SetPrimarySessionKey(key)

SpecFilter == Init /\ [][NextFilter]_vars

\* The client's stream fields other than the pin.
EngineFields(s) ==
    <<s.activeStreamSource, s.assistantStreamText, s.assistantStreamMode,
      s.currentBlockOffset, s.streamStarted, s.activeRunId, s.activeSessionKey>>

\* The emissions of the last operation other than the detection signal.
StreamEmissions(log) == SelectSeq(log, LAMBDA m : m.event # "subagentDetected")

\* The last event was a chat or agent event that a pin is set against: a pin
\* is set and the event carries a non-empty string sessionKey other than the pin.
PinnedAgainst ==
    /\ Truthy(pre.primarySessionKey)
    /\ IsString(Payload.sessionKey) /\ Truthy(Payload.sessionKey)
    /\ Payload.sessionKey # pre.primarySessionKey

\* The outcome of the last event had no pin been set.
Unfiltered == handleNotification([pre EXCEPT !.primarySessionKey = NULL], Event, Payload)

\* C11: a chat or agent event is rejected (the stream fields stay as they
\* were and nothing but the detection signal is emitted) exactly when a pin is
\* set and the event carries a non-empty string sessionKey other than the pin;
\* every other chat or agent event - no sessionKey, an empty one, one that is
\* not a string, the pinned one, or any while no pin is set - is processed as
\* it is when no pin is set.
C11_FilterPermissive ==
    (IsNotification /\ Event \in {"chat", "agent"})
    => IF PinnedAgainst
       THEN /\ EngineFields(Fields) = EngineFields(pre)
            /\ StreamEmissions(emitted) = <<>>
       ELSE /\ EngineFields(Fields) = EngineFields(Unfiltered)
            /\ StreamEmissions(emitted) = Unfiltered.emitted

\* C11 witness: with the pin 's1' set, an agent assistant event that carries
\* no sessionKey is processed and emits a chunk.
C11_Witness ==
    /\ IsAgent("assistant") /\ pre.primarySessionKey = "s1"
    /\ Payload.sessionKey = UNDEF
    /\ Emits("streamChunk")

\* C12: while a pin k is set, a notification that carries a non-empty
\* sessionKey other than k emits exactly one subagentDetected carrying that
\* key; a notification that carries k or no sessionKey emits none, and none is
\* emitted while no pin is set.
C12_SubagentDetected ==
    IsNotification
    => IF /\ Truthy(pre.primarySessionKey) /\ Truthy(Payload.sessionKey)
          /\ Payload.sessionKey # pre.primarySessionKey
       THEN /\ EmitsOnce("subagentDetected")
            /\ Emissions("subagentDetected")[1].payload = [sessionKey |-> Payload.sessionKey]
       ELSE ~Emits("subagentDetected")

\* C12 witness: with the pin 's1' set, an agent assistant event of 's2' emits
\* one detection for 's2' and no chunk.
C12_Witness ==
    /\ IsAgent("assistant") /\ pre.primarySessionKey = "s1"
    /\ Payload.sessionKey = "s2" /\ Payload.delta = <<"a">>
    /\ EmitsOnce("subagentDetected") /\ ~Emits("streamChunk")

----------------------------------------------------------------------------
(* SpecResponse: successive responses.  ended records the text that was held *)
(* when streamEnd was last emitted.                                          *)

\* One event frame is handled; ended is updated when it emits streamEnd.
HandleResponse(e) ==
    /\ Handle(e)
    /\ ended' = IF \E i \in DOMAIN emitted' : emitted'[i].event = "streamEnd"
                THEN assistantStreamText
                ELSE ended
    /\ UNCHANGED <<requestedPin, sent, timedOut, connVars>>

ResponseTexts == {<<"a">>, <<"a", "b">>}

ResponseNotifications ==
    ChatDeltaEvents(Origins, ResponseTexts)
    \cup ChatFinalEvents(Origins, {<<"a">>})
    \cup AgentAssistantEvents(Origins, ResponseTexts)
    \cup AgentLifecycleEvents(Origins, {<<"end", UNDEF>>, <<UNDEF, "complete">>})

NextResponse == \E e \in ResponseNotifications : HandleResponse(e)

SpecResponse == Init /\ [][NextResponse]_vars

\* The text that a chat delta or agent assistant event asks to reconcile: the
\* message content or the delta of a chat delta event; data.text of an agent
\* event, or data.delta when data.text is empty or heartbeat text.
EventText ==
    IF Event = "chat"
    THEN IF IsText(Payload.content) THEN extractTextFromContent(Payload.content)
         ELSE IF IsText(Payload.delta) THEN stripAnsi(Payload.delta) ELSE <<>>
    ELSE LET canonicalText == IF IsText(Payload.text) THEN stripAnsi(Payload.text) ELSE <<>>
         IN  IF canonicalText # <<>> /\ ~isHeartbeatContent(canonicalText)
             THEN canonicalText
             ELSE IF IsText(Payload.delta) THEN stripAnsi(Payload.delta) ELSE <<>>

IsTextEvent ==
    /\ IsChat("delta") \/ IsAgent("assistant")
    /\ EventText # <<>> /\ ~isHeartbeatContent(EventText)

\* The emissions of the last operation other than streamSessionKey and the
\* detection signal, as <<event name, text>>.
StreamSignals ==
    LET log == SelectSeq(emitted,
                   LAMBDA m : m.event \notin {"streamSessionKey", "subagentDetected"})
    IN  [i \in DOMAIN log |->
            IF log[i].event = "streamChunk" THEN <<"streamChunk", log[i].payload.text>>
            ELSE <<log[i].event>>]

\* C13: an operation that emits streamEnd leaves the per-response state
\* initial (no source, empty text, offset 0, not started, no run id, no
\* session id); and an accepted text event handled in that state emits
\* streamStart and then its whole text as one chunk, whatever the text of the
\* response that ended before.
C13_FreshAfterEnd ==
    /\ (IsNotification /\ Emits("streamEnd")) => StreamStateIsReset
    /\ (/\ IsTextEvent /\ Accepted
        /\ EngineFields(pre) = <<NULL, <<>>, NULL, 0, FALSE, NULL, NULL>>)
       => /\ StreamSignals = << <<"streamStart">>, <<"streamChunk", EventText>> >>
          /\ assistantStreamText = EventText

\* C13 witness: the response that ended held 'ab'; the first text event after
\* it carries 'ab' again and is emitted in full after a streamStart.
C13_Witness ==
    /\ IsTextEvent /\ Accepted
    /\ EngineFields(pre) = <<NULL, <<>>, NULL, 0, FALSE, NULL, NULL>>
    /\ ended = <<"a", "b">> /\ EventText = <<"a", "b">>
    /\ StreamSignals = << <<"streamStart">>, <<"streamChunk", <<"a", "b">> >> >>

----------------------------------------------------------------------------
(* SpecRun: run and session identity.  Events of two sessions and two runs,  *)
(* with and without identifiers.                                             *)

RunOrigins ==
    ({UNDEF, "s1", "s2"} \X {UNDEF, "r1", "r2"}) \cup {<<UNDEF, NUM>>}
RunTexts == {<<"a">>, <<"a", "b">>}

\* agent data.text, chat delta, chat final with a message that has no id, a
\* tool start, a lifecycle end.
RunNotifications ==
    {e \in AgentAssistantEvents(RunOrigins, RunTexts) :
        e.payload.text \in RunTexts /\ ~IsText(e.payload.delta)}
    \cup {e \in ChatDeltaEvents(RunOrigins, {<<"a">>}) : e.payload.delta = <<"a">>}
    \cup {e \in ChatFinalEvents(RunOrigins, {<<"a">>}) :
            e.payload.message /\ e.payload.msgId = UNDEF}
    \cup AgentToolEvents(RunOrigins,
            {[toolCallId |-> "tc-1", id |-> UNDEF, name |-> "bash", toolName |-> UNDEF,
              dataPhase |-> "start", result |-> Absent]})
    \cup AgentLifecycleEvents(RunOrigins, {<<"end", UNDEF>>})

NextRun ==
    \/ \E e \in RunNotifications : HandleNotification(e)
    \/ \E key \in {NULL, "s1"} : SetPrimarySessionKey(key)

SpecRun == Init /\ [][NextRun]_vars

\* The last operation handled a chat or agent event that passed the filter.
IsStreamEvent == IsNotification /\ Event \in {"chat", "agent"} /\ Accepted

\* The last event ended the response: the stream state was reset by a chat
\* final or together with a streamEnd.
EndedResponse ==
    /\ IsChat("final") \/ Emits("streamEnd")
    /\ StreamStateIsReset

\* C14: an accepted chat or agent event emits streamSessionKey once, carrying
\* its sessionKey, when that key is a non-empty string other than the active
\* session key, and the active session key is then that key (until the event
\* itself ends the response); any other event emits none, so of consecutive
\* events that carry the same key only the first emits it.
C14_SessionKeyChange ==
    IsNotification
    => IF /\ IsStreamEvent
          /\ IsString(Payload.sessionKey) /\ Truthy(Payload.sessionKey)
          /\ Payload.sessionKey # pre.activeSessionKey
       THEN /\ EmitsOnce("streamSessionKey")
            /\ Emissions("streamSessionKey")[1].payload.sessionKey = Payload.sessionKey
            /\ maybeUpdateRunAndSession(pre, Payload.runId, Payload.sessionKey)
                  .activeSessionKey = Payload.sessionKey
            /\ activeSessionKey = Payload.sessionKey \/ EndedResponse
       ELSE ~Emits("streamSessionKey")

\* C14 witness: the second of two consecutive accepted events of 's1' emits no
\* streamSessionKey.
C14_Witness ==
    /\ IsStreamEvent /\ Payload.sessionKey = "s1"
    /\ pre.activeSessionKey = "s1" /\ activeSessionKey = "s1"
    /\ ~Emits("streamSessionKey") /\ Emits("streamChunk")

\* The outcome of the last event had it carried the active run id.
SameRun ==
    handleNotification(pre, Event, [Payload EXCEPT !.runId = pre.activeRunId])

\* The names of the events a record's log holds, with the chunk texts.
SignalsOf(log) ==
    [i \in DOMAIN log |->
        IF log[i].event = "streamChunk" THEN <<"streamChunk", log[i].payload.text>>
        ELSE <<log[i].event>>]

----------------------------------------------------------------------------
(* The connection and the request correlator, as functions of the client's   *)
(* fields.  c is the record of all fields (the stream fields of Fields and   *)
(* the connection fields); a socket is its index in c.sockets.  A socket     *)
(* record holds readyState, whether the handlers connect() attached          *)
(* (onmessage, onclose, onerror) are still attached, the state of the        *)
(* promise that connect() returned for it, and the request frames sent.      *)

MaxSockets  == 2     \* sockets the client constructs
MaxRequests == 3     \* request identifiers allocated

\* this.ws = null
NoSocket == 0

Client ==
    Fields @@
    [ws |-> ws, sockets |-> sockets, authenticated |-> authenticated,
     requestId |-> requestId, pendingRequests |-> pendingRequests,
     timers |-> timers, reconnectAttempts |-> reconnectAttempts,
     maxReconnectAttempts |-> maxReconnectAttempts,
     reconnectTimers |-> reconnectTimers, settled |-> <<>>, decoding |-> decoding,
     url |-> url]

\* (++this.requestId).toString(): identifiers are kept as numbers.
NextId(c) == c.requestId + 1

\* new Error(message)
Error(message) == [message |-> message]

\* resolve(value) or reject(value) of a promise.  promise is <<"connect", i>>
\* for the promise connect() returned for socket i and <<"call", id>> for the
\* promise of the call with that id (id 0: a call that got no id); a promise
\* settles once.
settle(c, promise, kind, value) ==
    LET c1 == [c EXCEPT !.settled =
                   Append(@, [promise |-> promise, kind |-> kind, value |-> value])]
    IN  IF promise[1] = "connect" /\ c.sockets[promise[2]].promise = "pending"
        THEN [c1 EXCEPT !.sockets[promise[2]].promise = kind]
        ELSE c1

\* connect(): a new WebSocket with the four handlers; it becomes this.ws.
connect(c) ==
    [c EXCEPT !.sockets = Append(@, [readyState |-> "CONNECTING", handlers |-> TRUE,
                                     promise |-> "pending", sent |-> {}]),
              !.ws = Len(c.sockets) + 1]

onopen(c) == [c EXCEPT !.reconnectAttempts = 0]

Pow2(n) == IF n = 0 THEN 1 ELSE IF n = 1 THEN 2 ELSE IF n = 2 THEN 4
           ELSE IF n = 3 THEN 8 ELSE 16

attemptReconnect(c) ==
    IF c.reconnectAttempts >= c.maxReconnectAttempts THEN c
    ELSE LET attempts == c.reconnectAttempts + 1
         IN  [c EXCEPT !.reconnectAttempts = attempts,
                       !.reconnectTimers = Append(@, 1000 * Pow2(attempts - 1))]

\* The callback of the k-th reconnection timeout still armed: connect().  The
\* rejection of the new promise is caught and dropped.
reconnectTimeout(c, k) ==
    connect([c EXCEPT !.reconnectTimers = SubSeq(@, 1, k - 1) \o SubSeq(@, k + 1, Len(@))])

\* Mutant of onclose: the request counter starts again at 0 after a closure.
onclose_RestartsIds(c) ==
    attemptReconnect(
        emit(resetStreamState([c EXCEPT !.authenticated = FALSE, !.requestId = 0]),
             "disconnected", UNDEF))

onclose(c) ==
    attemptReconnect(
        emit(resetStreamState([c EXCEPT !.authenticated = FALSE]), "disconnected", UNDEF))

\* `https://${urlObj.host}`
HttpsUrl(u) == [scheme |-> "https", host |-> u.host]

\* new Error(`Certificate error - visit ${httpsUrl} to accept the certificate`)
CertificateError(httpsUrl) == [message |-> "Certificate error - visit ", httpsUrl |-> httpsUrl]

\* ws.onerror of socket sock.  The test reads the state of this.ws; new URL
\* parses what the WebSocket constructor already parsed, so it does not throw.
onerror(c, sock) ==
    IF /\ c.url.scheme = "wss"
       /\ c.ws # NoSocket
       /\ c.sockets[c.ws].readyState = "CLOSED"
    THEN settle(emit(c, "certError", [url |-> c.url, httpsUrl |-> HttpsUrl(c.url)]),
                <<"connect", sock>>, "reject", CertificateError(HttpsUrl(c.url)))
    ELSE settle(emit(c, "error", [type |-> "error"]),
                <<"connect", sock>>, "reject", Error("WebSocket connection failed"))

disconnect(c) ==
    LET c1 == [c EXCEPT !.maxReconnectAttempts = 0]
        c2 == IF c1.ws # NoSocket
              THEN [c1 EXCEPT !.sockets[c1.ws].handlers = FALSE,
                              !.sockets[c1.ws].readyState =
                                  IF @ = "CLOSED" THEN "CLOSED" ELSE "CLOSING"]
              ELSE c1
    IN  resetStreamState([c2 EXCEPT !.ws = NoSocket, !.authenticated = FALSE])

\* this.ws.send(frame): a socket that is still connecting throws, an open one
\* sends, a closing or closed one drops the frame.
send(c, frame) ==
    IF c.sockets[c.ws].readyState = "OPEN"
    THEN [c EXCEPT !.sockets[c.ws].sent = @ \cup {frame}]
    ELSE c

\* performHandshake on a challenge received on socket sock: the connect
\* request goes to this.ws; when send throws, the catch handler rejects the
\* connect() promise of sock.
performHandshake(c, sock) ==
    LET id == NextId(c)
        c1 == [c EXCEPT !.requestId = id]
    IN  IF c1.ws = NoSocket THEN c1
        ELSE IF c1.sockets[c1.ws].readyState = "CONNECTING"
        THEN settle(c1, <<"connect", sock>>, "reject", Error("InvalidStateError"))
        ELSE send(c1, [id |-> id, method |-> "connect"])

\* Mutant of call: a request made while the socket is not open is registered
\* and waits for its timeout.
call_QueuesWhenClosed(c, method) ==
    LET id == NextId(c)
        c1 == [c EXCEPT !.requestId = id,
                        !.pendingRequests = @ \cup {[id |-> id, method |-> method]}]
        c2 == IF c1.ws # NoSocket THEN send(c1, [id |-> id, method |-> method]) ELSE c1
    IN  [c2 EXCEPT !.timers = @ \cup {[id |-> id, method |-> method]}]

call(c, method) ==
    IF c.ws = NoSocket \/ c.sockets[c.ws].readyState # "OPEN"
    THEN settle(c, <<"call", 0>>, "reject", Error("Not connected to OpenClaw"))
    ELSE LET id == NextId(c)
             c1 == [c EXCEPT !.requestId = id,
                             !.pendingRequests = @ \cup {[id |-> id, method |-> method]}]
             c2 == send(c1, [id |-> id, method |-> method])
         IN  [c2 EXCEPT !.timers = @ \cup {[id |-> id, method |-> method]}]

\* new Error(`Request timeout: ${method}`)
RequestTimeoutError(method) == [message |-> "Request timeout: ", method |-> method]

\* Mutant of requestTimeout: the timeout rejects its call whether or not the
\* call is still pending.
requestTimeout_RejectsLate(c, t) ==
    settle([c EXCEPT !.timers = @ \ {t},
                     !.pendingRequests = {p \in @ : p.id # t.id}],
           <<"call", t.id>>, "reject", RequestTimeoutError(t.method))

\* The callback of the 30 s timeout that call() armed for the request t.
requestTimeout(c, t) ==
    LET c1 == [c EXCEPT !.timers = @ \ {t}]
    IN  IF \E p \in c1.pendingRequests : p.id = t.id
        THEN settle([c1 EXCEPT !.pendingRequests = {p \in @ : p.id # t.id}],
                    <<"call", t.id>>, "reject", RequestTimeoutError(t.method))
        ELSE c1

\* Mutant of handleResponse: a matching response resolves the call whether ok
\* is true or false.
handleResponse_ResolvesErrors(c, sock, frame) ==
    LET pending == {p \in c.pendingRequests : p.id = frame.id}
    IN  IF ~c.authenticated /\ frame.ok /\ frame.payload.type = "hello-ok"
        THEN settle(emit([c EXCEPT !.authenticated = TRUE], "connected", frame.payload),
                    <<"connect", sock>>, "resolve", UNDEF)
        ELSE IF pending # {}
        THEN settle([c EXCEPT !.pendingRequests = @ \ pending],
                    <<"call", frame.id>>, "resolve", frame.payload)
        ELSE IF ~frame.ok /\ ~c.authenticated
        THEN settle(c, <<"connect", sock>>, "reject",
                    Error(Or(frame.errorMessage, "Handshake failed")))
        ELSE c

\* Mutant of handleResponse: the handshake success response is recognised by
\* its shape also while the client is authenticated.
handleResponse_HelloAlways(c, sock, frame) ==
    LET pending == {p \in c.pendingRequests : p.id = frame.id}
    IN  IF frame.ok /\ frame.payload.type = "hello-ok"
        THEN settle(emit([c EXCEPT !.authenticated = TRUE], "connected", frame.payload),
                    <<"connect", sock>>, "resolve", UNDEF)
        ELSE IF pending # {}
        THEN LET c1 == [c EXCEPT !.pendingRequests = @ \ pending]
             IN  IF frame.ok
                 THEN settle(c1, <<"call", frame.id>>, "resolve", frame.payload)
                 ELSE settle(c1, <<"call", frame.id>>, "reject",
                             Error(Or(frame.errorMessage, "Unknown error")))
        ELSE IF ~frame.ok /\ ~c.authenticated
        THEN settle(c, <<"connect", sock>>, "reject",
                    Error(Or(frame.errorMessage, "Handshake failed")))
        ELSE c

\* Mutant of handleResponse: a failed connect response is reported with the
\* generic message whatever the server supplied.
handleResponse_GenericFailure(c, sock, frame) ==
    LET pending == {p \in c.pendingRequests : p.id = frame.id}
    IN  IF ~c.authenticated /\ frame.ok /\ frame.payload.type = "hello-ok"
        THEN settle(emit([c EXCEPT !.authenticated = TRUE], "connected", frame.payload),
                    <<"connect", sock>>, "resolve", UNDEF)
        ELSE IF pending # {}
        THEN LET c1 == [c EXCEPT !.pendingRequests = @ \ pending]
             IN  IF frame.ok
                 THEN settle(c1, <<"call", frame.id>>, "resolve", frame.payload)
                 ELSE settle(c1, <<"call", frame.id>>, "reject",
                             Error(Or(frame.errorMessage, "Unknown error")))
        ELSE IF ~frame.ok /\ ~c.authenticated
        THEN settle(c, <<"connect", sock>>, "reject", Error("Handshake failed"))
        ELSE c

\* handleMessage for a frame of type 'res' received on socket sock.
handleResponse(c, sock, frame) ==
    LET pending == {p \in c.pendingRequests : p.id = frame.id}
    IN  IF ~c.authenticated /\ frame.ok /\ frame.payload.type = "hello-ok"
        THEN settle(emit([c EXCEPT !.authenticated = TRUE], "connected", frame.payload),
                    <<"connect", sock>>, "resolve", UNDEF)
        ELSE IF pending # {}
        THEN LET c1 == [c EXCEPT !.pendingRequests = @ \ pending]
             IN  IF frame.ok
                 THEN settle(c1, <<"call", frame.id>>, "resolve", frame.payload)
                 ELSE settle(c1, <<"call", frame.id>>, "reject",
                             Error(Or(frame.errorMessage, "Unknown error")))
        ELSE IF ~frame.ok /\ ~c.authenticated
        THEN settle(c, <<"connect", sock>>, "reject",
                    Error(Or(frame.errorMessage, "Handshake failed")))
        ELSE c

\* Data that JSON.parse rejects.
NotJSON == [type |-> UNDEF, json |-> FALSE]

\* Mutant of handleMessage: a frame that cannot be parsed is reported through
\* the reject of the connect() promise.
handleMessage_RejectsUndecodable(c, sock, frame) ==
    IF frame = NotJSON
    THEN settle(c, <<"connect", sock>>, "reject", Error("SyntaxError"))
    ELSE IF frame.type = "event"
    THEN IF frame.event = "connect.challenge"
         THEN performHandshake(c, sock)
         ELSE handleNotification(c, frame.event, frame.payload)
    ELSE IF frame.type = "res"
    THEN handleResponse(c, sock, frame)
    ELSE c

\* handleMessage(data, resolve, reject) for the frame received on sock: what
\* JSON.parse throws is caught, and a message of another type is left alone.
handleMessage(c, sock, frame) ==
    IF frame = NotJSON
    THEN c
    ELSE IF frame.type = "event"
    THEN IF frame.event = "connect.challenge"
         THEN performHandshake(c, sock)
         ELSE handleNotification(c, frame.event, frame.payload)
    ELSE IF frame.type = "res"
    THEN handleResponse(c, sock, frame)
    ELSE c

----------------------------------------------------------------------------
(* Inputs: frames the gateway sends, and the methods callers invoke.          *)

\* ws.onmessage of socket sock with a Blob: incoming.text() is pending.
onmessageBlob(c, sock, frame) ==
    [c EXCEPT !.decoding = @ \cup {[sock |-> sock, frame |-> frame]}]

\* The then-callback of incoming.text() for the Blob d: handleMessage with the
\* resolve and reject of the connect() whose socket received it.
blobText(c, d) ==
    handleMessage([c EXCEPT !.decoding = @ \ {d}], d.sock, d.frame)

Methods == {"sessions.list"}

\* Responses: ok with a hello-ok payload or another payload; not ok with and
\* without an error message.
ResponseFrames(ids) ==
    {[type |-> "res", id |-> i, ok |-> TRUE, payload |-> [type |-> pt],
      errorMessage |-> UNDEF] : i \in ids, pt \in {"hello-ok", "data"}}
    \cup
    {[type |-> "res", id |-> i, ok |-> FALSE, payload |-> [type |-> UNDEF],
      errorMessage |-> msg] : i \in ids, msg \in {UNDEF, "boom"}}

\* The requests call() can register: [id, method].
Requests == {[id |-> i, method |-> method] : i \in 1..MaxRequests, method \in Methods}

ChallengeFrame == [type |-> "event", event |-> "connect.challenge", payload |-> Payload0]

EventFrames ==
    {ChallengeFrame}
    \cup {[type |-> "event", event |-> e.event, payload |-> e.payload] :
            e \in {n \in AgentAssistantEvents(NoOrigin, {<<"a">>}) :
                      n.payload.delta = <<"a">> /\ ~IsText(n.payload.text)}}

----------------------------------------------------------------------------
(* State machine of the connection *)

\* All fields take the values of the record r.
CommitAll(r) ==
    /\ Commit(r)
    /\ ws' = r.ws
    /\ sockets' = r.sockets
    /\ authenticated' = r.authenticated
    /\ requestId' = r.requestId
    /\ pendingRequests' = r.pendingRequests
    /\ timers' = r.timers
    /\ reconnectAttempts' = r.reconnectAttempts
    /\ maxReconnectAttempts' = r.maxReconnectAttempts
    /\ reconnectTimers' = r.reconnectTimers
    /\ settled' = r.settled
    /\ decoding' = r.decoding
    /\ url' = r.url

\* The ids of the calls that the settlements of log reject with a timeout.
TimedOutIn(log) ==
    {log[i].promise[2] : i \in {j \in DOMAIN log :
                                  /\ log[j].kind = "reject"
                                  /\ log[j].value.message = "Request timeout: "}}

\* The operation name(arg) ran to completion and left the fields r.
Do(name, arg, r) ==
    /\ CommitAll(r)
    /\ op' = [name |-> name, arg |-> arg]
    /\ pre' = Client
    /\ timedOut' = timedOut \cup TimedOutIn(r.settled)
    /\ UNCHANGED <<requestedPin, sent, ended>>

\* The caller calls connect().
Connect ==
    /\ Len(sockets) < MaxSockets
    /\ Do("connect", UNDEF, connect(Client))

\* A reconnection timeout scheduled by attemptReconnect fires.
ReconnectTimerFires(k) ==
    /\ k \in DOMAIN reconnectTimers
    /\ Len(sockets) < MaxSockets
    /\ Do("reconnect", reconnectTimers[k], reconnectTimeout(Client, k))

\* Socket i opens: ws.onopen.
SocketOpens(i) ==
    /\ i \in DOMAIN sockets
    /\ sockets[i].readyState = "CONNECTING"
    /\ Do("onopen", i, onopen([Client EXCEPT !.sockets[i].readyState = "OPEN"]))

\* Socket i closes: ws.onclose, when it is still attached.
SocketCloses(i) ==
    /\ i \in DOMAIN sockets
    /\ sockets[i].readyState # "CLOSED"
    /\ LET c1 == [Client EXCEPT !.sockets[i].readyState = "CLOSED"]
       IN  Do("onclose", i, IF sockets[i].handlers THEN onclose(c1) ELSE c1)

\* The caller calls disconnect().
Disconnect == Do("disconnect", UNDEF, disconnect(Client))

\* A caller calls call(method).
Call(method) ==
    /\ (ws # NoSocket /\ sockets[ws].readyState = "OPEN") => requestId < MaxRequests
    /\ Do("call", method, call(Client, method))

\* The 30 s timeout of a request fires.
RequestTimeout(t) ==
    /\ t \in timers
    /\ Do("timeout", t, requestTimeout(Client, t))

\* A frame arrives on the open socket i: ws.onmessage.  The gateway answers
\* requests that were sent to it on that socket.
Receive(i, frame) ==
    /\ i \in DOMAIN sockets
    /\ sockets[i].readyState = "OPEN" /\ sockets[i].handlers
    /\ frame.type = "res" => \E f \in sockets[i].sent : f.id = frame.id
    /\ (frame.type = "event" /\ frame.event = "connect.challenge")
          => requestId < MaxRequests
    /\ LET r == handleMessage(Client, i, frame)
       IN  /\ Len(r.assistantStreamText) <= MaxText
           /\ Do("handleMessage", [sock |-> i, frame |-> frame], r)

\* SpecCorrelator: one connection made by the caller, its handshake, calls,
\* their timeouts and responses.
ConnectOnce == ws = NoSocket /\ Connect

NextCorrelator ==
    \/ ConnectOnce
    \/ \E i \in 1..MaxSockets : SocketOpens(i)
    \/ \E i \in 1..MaxSockets : SocketCloses(i)
    \/ \E method \in Methods : Call(method)
    \/ \E t \in Requests : RequestTimeout(t)
    \/ \E i \in 1..MaxSockets, frame \in ResponseFrames(1..MaxRequests) \cup EventFrames :
          Receive(i, frame)

SpecCorrelator == Init /\ [][NextCorrelator]_vars

\* SpecHandshake: connect() called again while a socket exists, calls, and
\* the challenge and hello-ok frames on each socket.
HelloFrames ==
    {f \in ResponseFrames(1..MaxRequests) : f.ok /\ f.payload.type = "hello-ok"}

NextHandshake ==
    \/ Connect
    \/ \E i \in 1..MaxSockets : SocketOpens(i)
    \/ \E method \in Methods : Call(method)
    \/ \E i \in 1..MaxSockets, frame \in HelloFrames \cup {ChallengeFrame} :
          Receive(i, frame)

SpecHandshake == Init /\ [][NextHandshake]_vars

\* SpecReconnect: closures, reconnection timers and disconnect(), with calls
\* and handshake requests on every socket.
NextReconnect ==
    \/ Connect
    \/ \E k \in 1..MaxSockets : ReconnectTimerFires(k)
    \/ \E i \in 1..MaxSockets : SocketOpens(i)
    \/ \E i \in 1..MaxSockets : SocketCloses(i)
    \/ Disconnect
    \/ \E method \in Methods : Call(method)
    \/ \E i \in 1..MaxSockets : Receive(i, ChallengeFrame)

SpecReconnect == Init /\ [][NextReconnect]_vars

----------------------------------------------------------------------------
(* Observation of the connection's operations *)

IsOp(name) == op.name = name

\* The last operation was one of the connection: pre holds all fields.
IsConnectionOp ==
    op.name \in {"connect", "reconnect", "onopen", "onerror", "onclose", "disconnect",
                 "call", "timeout", "handleMessage", "onmessage"}

\* The frame that handleMessage handled last and the socket it arrived on.
Frame == op.arg.frame
Sock  == op.arg.sock
IsResponse == IsOp("handleMessage") /\ Frame.type = "res"

\* The pending entries of c that the last response's id names.
Matching(c) == {p \in c.pendingRequests : p.id = Frame.id}

\* No field of the client differs from what it was before the last operation.
NothingChanged == Client = pre

\* C16: the timeout of a call that is still pending rejects that call with
\* 'Request timeout: <method>' and removes its pending entry; a response that
\* arrives for the id of a call that timed out settles nothing, emits nothing
\* and changes no field.
C16_TimeoutThenLateResponse ==
    /\ (IsOp("timeout") /\ \E p \in pre.pendingRequests : p.id = op.arg.id)
          => /\ settled = << [promise |-> <<"call", op.arg.id>>, kind |-> "reject",
                              value |-> RequestTimeoutError(op.arg.method)] >>
             /\ pendingRequests = {p \in pre.pendingRequests : p.id # op.arg.id}
    /\ (IsResponse /\ Frame.id \in timedOut)
          => /\ settled = <<>>
             /\ emitted = <<>>
             /\ NothingChanged

\* C17: while the client is authenticated, a response whose id is that of a
\* pending call removes that entry alone and settles that call alone,
\* resolved with the payload when ok and rejected with error.message (or
\* 'Unknown error') when not; a response whose id matches no pending entry
\* settles nothing and removes nothing.
C17_ResponseCorrelation ==
    (IsResponse /\ pre.authenticated)
    => IF Matching(pre) # {}
       THEN /\ Cardinality(Matching(pre)) = 1
            /\ pendingRequests = pre.pendingRequests \ Matching(pre)
            /\ settled =
                 << [promise |-> <<"call", Frame.id>>,
                     kind    |-> IF Frame.ok THEN "resolve" ELSE "reject",
                     value   |-> IF Frame.ok THEN Frame.payload
                                 ELSE IF IsString(Frame.errorMessage)
                                         /\ Frame.errorMessage # ""
                                      THEN Error(Frame.errorMessage)
                                      ELSE Error("Unknown error")] >>
       ELSE /\ pendingRequests = pre.pendingRequests
            /\ settled = <<>>

\* C17 witness: two calls are pending on an authenticated client; an error
\* response without a message for one of them rejects it with 'Unknown
\* error' and the other stays pending.
C17_Witness ==
    /\ IsResponse /\ pre.authenticated
    /\ Cardinality(pre.pendingRequests) = 2 /\ Matching(pre) # {}
    /\ ~Frame.ok /\ Frame.errorMessage = UNDEF
    /\ Cardinality(pendingRequests) = 1
    /\ settled = << [promise |-> <<"call", Frame.id>>, kind |-> "reject",
                     value |-> Error("Unknown error")] >>

\* C18: call() made while there is no socket or the socket is not OPEN is
\* rejected with the not-connected error and does nothing else: no id is
\* allocated, no frame is sent, no pending entry and no timer are added.
C18_CallNotConnected ==
    (IsOp("call") /\ (pre.ws = NoSocket \/ pre.sockets[pre.ws].readyState # "OPEN"))
    => /\ settled = << [promise |-> <<"call", 0>>, kind |-> "reject",
                        value |-> Error("Not connected to OpenClaw")] >>
       /\ emitted = <<>>
       /\ NothingChanged

\* C18 witness: call() while the socket is still connecting.
C18_Witness ==
    /\ IsOp("call") /\ pre.ws # NoSocket
    /\ pre.sockets[pre.ws].readyState = "CONNECTING"
    /\ Len(settled) = 1 /\ settled[1].kind = "reject"
    /\ requestId = 0 /\ pendingRequests = {} /\ timers = {}

\* Every request frame sent so far, on any socket.
SentFrames(c) == UNION {c.sockets[i].sent : i \in DOMAIN c.sockets}

\* The last operation allocated a request identifier: an accepted call(), or
\* the handshake request made for a challenge.
AllocatedId ==
    \/ IsOp("call") /\ pre.ws # NoSocket /\ pre.sockets[pre.ws].readyState = "OPEN"
    \/ IsOp("handleMessage") /\ Frame.type = "event" /\ Frame.event = "connect.challenge"

\* C19: the request counter never decreases; every allocation takes the next
\* value, which is greater than the id of every frame sent and of every
\* pending entry so far, on any socket; no two pending entries share an id.
C19_IdsIncrease ==
    /\ IsConnectionOp =>
          /\ requestId >= pre.requestId
          /\ AllocatedId <=> requestId = pre.requestId + 1
          /\ ~AllocatedId => requestId = pre.requestId
          /\ \A f \in SentFrames(pre) \cup pre.pendingRequests :
                AllocatedId => f.id < requestId
          /\ \A f \in (SentFrames(Client) \cup pendingRequests) \
                      (SentFrames(pre) \cup pre.pendingRequests) : f.id = requestId
    /\ \A p, q \in pendingRequests : p.id = q.id => p = q
    /\ \A f \in SentFrames(Client) \cup pendingRequests \cup timers : f.id <= requestId

\* C19 witness: after a closure and a reconnection, a call on the second
\* socket gets an id greater than every id used on the first.
C19_Witness ==
    /\ IsOp("call") /\ ws = 2
    /\ sockets[1].readyState = "CLOSED" /\ sockets[1].sent # {}
    /\ \E p \in pendingRequests : p.id = requestId /\ p \in sockets[2].sent
    /\ \A f \in sockets[1].sent : f.id < requestId

\* C20: while the client is unauthenticated, an ok response with a hello-ok
\* payload, whatever its id, sets authenticated, emits 'connected' once with
\* the payload, resolves the connect() promise of the socket it arrived on
\* and settles no call (no pending entry is removed); while the client is
\* authenticated it is an ordinary response: no 'connected', and the call
\* with its id, if one is pending, is resolved with the payload.
C20_HandshakeSuccess ==
    (IsResponse /\ Frame.ok /\ Frame.payload.type = "hello-ok")
    => IF ~pre.authenticated
       THEN /\ authenticated
            /\ emitted = << [event |-> "connected", payload |-> Frame.payload] >>
            /\ settled = << [promise |-> <<"connect", Sock>>, kind |-> "resolve",
                             value |-> UNDEF] >>
            /\ pre.sockets[Sock].promise = "pending" => sockets[Sock].promise = "resolve"
            /\ \A i \in DOMAIN sockets : i # Sock => sockets[i] = pre.sockets[i]
            /\ pendingRequests = pre.pendingRequests
       ELSE /\ authenticated
            /\ emitted = <<>>
            /\ pendingRequests = pre.pendingRequests \ Matching(pre)
            /\ settled = IF Matching(pre) # {}
                         THEN << [promise |-> <<"call", Frame.id>>, kind |-> "resolve",
                                  value |-> Frame.payload] >>
                         ELSE <<>>

\* C20 witness: two sockets are open and a call is pending; a hello-ok
\* response that carries the call's id arrives on the first socket: the
\* promise of the first connect() is resolved, the promise of the second is
\* not, and the call stays pending.
C20_Witness ==
    /\ IsResponse /\ Frame.ok /\ Frame.payload.type = "hello-ok"
    /\ ~pre.authenticated /\ authenticated
    /\ Sock = 1 /\ Len(sockets) = 2
    /\ sockets[1].promise = "resolve" /\ sockets[2].promise = "pending"
    /\ Matching(pre) # {} /\ pendingRequests = pre.pendingRequests
    /\ EmitsOnce("connected")

\* The rejection of the connect() promise of the arrival socket that a failed
\* connect response makes: the server's message, or the generic one.
HandshakeRejection ==
    << [promise |-> <<"connect", Sock>>, kind |-> "reject",
        value |-> IF IsString(Frame.errorMessage) /\ Frame.errorMessage # ""
                  THEN Error(Frame.errorMessage)
                  ELSE Error("Handshake failed")] >>

\* The last operation sent no frame and allocated no request identifier.
SentNothing ==
    /\ SentFrames(Client) = SentFrames(pre)
    /\ requestId = pre.requestId

\* C21 as stated: every non-ok response received while the client is
\* unauthenticated rejects the connect() promise with the server's message or
\* 'Handshake failed'; the client stays unauthenticated, emits no 'connected'
\* and sends no request.
C21_HandshakeFailure ==
    (IsResponse /\ ~Frame.ok /\ ~pre.authenticated)
    => /\ settled = HandshakeRejection
       /\ ~authenticated
       /\ ~Emits("connected")
       /\ SentNothing

\* C21 amended: a non-ok response received while the client is
\* unauthenticated and whose id is that of no pending call rejects the
\* connect() promise of the socket it arrived on with the server's message or
\* 'Handshake failed', settles nothing else, leaves the client
\* unauthenticated, emits nothing and sends no request.
C21_UnmatchedHandshakeFailure ==
    (IsResponse /\ ~Frame.ok /\ ~pre.authenticated /\ Matching(pre) = {})
    => /\ settled = HandshakeRejection
       /\ pre.sockets[Sock].promise = "pending" => sockets[Sock].promise = "reject"
       /\ ~authenticated
       /\ emitted = <<>>
       /\ pendingRequests = pre.pendingRequests
       /\ SentNothing

\* C21 witness: the handshake request was sent and its response is not ok and
\* carries a message: the pending connect() promise is rejected with it.
C21_Witness ==
    /\ IsResponse /\ ~Frame.ok /\ ~pre.authenticated /\ Matching(pre) = {}
    /\ \E f \in pre.sockets[Sock].sent : f.id = Frame.id /\ f.method = "connect"
    /\ Frame.errorMessage = "boom"
    /\ pre.sockets[Sock].promise = "pending" /\ sockets[Sock].promise = "reject"
    /\ settled[1].value = Error("boom")

----------------------------------------------------------------------------
(* SpecBackoff: one connection made by the caller and the chain of closures, *)
(* reconnection timers and handshakes that follows it.  At most one socket   *)
(* is alive at a time, so a longer chain of sockets is explored.             *)

MaxBackoffSockets == 7   \* sockets the client constructs in SpecBackoff

BackoffTimerFires(k) ==
    /\ k \in DOMAIN reconnectTimers
    /\ Len(sockets) < MaxBackoffSockets
    /\ Do("reconnect", reconnectTimers[k], reconnectTimeout(Client, k))

NextBackoff ==
    \/ ConnectOnce
    \/ \E k \in 1..MaxBackoffSockets : BackoffTimerFires(k)
    \/ \E i \in 1..MaxBackoffSockets : SocketOpens(i)
    \/ \E i \in 1..MaxBackoffSockets : SocketCloses(i)
    \/ \E i \in 1..MaxBackoffSockets, frame \in HelloFrames \cup {ChallengeFrame} :
          Receive(i, frame)

SpecBackoff == Init /\ [][NextBackoff]_vars

\* The socket of the last successful handshake (0: none yet).  In SpecBackoff
\* socket i + 1 is constructed after socket i closed.
LastHandshake ==
    LET done == {i \in DOMAIN sockets : sockets[i].promise = "resolve"}
    IN  IF done = {} THEN 0 ELSE CHOOSE i \in done : \A j \in done : j <= i

\* The reconnection attempts made since the last successful handshake (since
\* the caller's connect() when there was none): the sockets constructed by a
\* reconnection timer since then and the timers still armed.
AttemptsSinceHandshake ==
    Len(sockets) - (IF LastHandshake = 0 THEN 1 ELSE LastHandshake) + Len(reconnectTimers)

\* The last operation was a closure that scheduled a reconnection.
ScheduledReconnect ==
    IsOp("onclose") /\ Len(reconnectTimers) = Len(pre.reconnectTimers) + 1

\* At most 5 reconnection attempts are made between two successful handshakes.
AtMostFiveAttempts == AttemptsSinceHandshake <= 5

\* C22: the n-th reconnection attempt since the last successful handshake is
\* scheduled with delay 1000 * 2^(n-1) ms, and at most 5 attempts are made
\* between two successful handshakes.
C22_BoundedBackoff ==
    /\ AtMostFiveAttempts
    /\ ScheduledReconnect
          => reconnectTimers[Len(reconnectTimers)] = 1000 * Pow2(AttemptsSinceHandshake - 1)

\* disconnect() has been called before the last operation: it alone writes
\* maxReconnectAttempts.
DisconnectedBefore == pre.maxReconnectAttempts = 0

\* C23: once disconnect() has been called, only a connect() of the caller
\* constructs a socket: a reconnection timer that fires constructs none, and
\* no closure schedules a reconnection.
C23_NoReconnectAfterDisconnect ==
    (IsConnectionOp /\ DisconnectedBefore /\ ~IsOp("connect"))
    => /\ Len(sockets) = Len(pre.sockets)
       /\ Len(reconnectTimers) <= Len(pre.reconnectTimers)

----------------------------------------------------------------------------
(* SpecDisconnect: connect() and disconnect() by the caller, frames received  *)
(* as strings and as Blobs on every socket.                                   *)

MaxDecoding == 1   \* Blob frames being decoded at a time

\* A Blob frame arrives on the open socket i: ws.onmessage starts decoding.
ReceiveBlob(i, frame) ==
    /\ Cardinality(decoding) < MaxDecoding
    /\ i \in DOMAIN sockets
    /\ sockets[i].readyState = "OPEN" /\ sockets[i].handlers
    /\ frame.type = "res" => \E f \in sockets[i].sent : f.id = frame.id
    /\ Do("onmessage", [sock |-> i, frame |-> frame], onmessageBlob(Client, i, frame))

\* The text of a Blob frame is ready: handleMessage.
BlobDecoded(d) ==
    /\ d \in decoding
    /\ (d.frame.type = "event" /\ d.frame.event = "connect.challenge")
          => requestId < MaxRequests
    /\ LET r == blobText(Client, d)
       IN  /\ Len(r.assistantStreamText) <= MaxText
           /\ Do("handleMessage", d, r)

\* Frames: ok responses, the challenge, and an agent assistant event with a
\* delta of three characters.
DisconnectFrames ==
    {f \in ResponseFrames(1..MaxRequests) : f.ok}
    \cup {ChallengeFrame}
    \cup {[type |-> "event", event |-> e.event, payload |-> e.payload] :
            e \in {n \in AgentAssistantEvents(NoOrigin, {<<"a", "b", "a">>}) :
                      IsText(n.payload.delta) /\ ~IsText(n.payload.text)}}

NextDisconnect ==
    \/ Connect
    \/ \E i \in 1..MaxSockets : SocketOpens(i)
    \/ Disconnect
    \/ \E i \in 1..MaxSockets, frame \in DisconnectFrames : Receive(i, frame)
    \/ \E i \in 1..MaxSockets, frame \in DisconnectFrames : ReceiveBlob(i, frame)
    \/ \E i \in 1..MaxSockets, frame \in DisconnectFrames :
          BlobDecoded([sock |-> i, frame |-> frame])

SpecDisconnect == Init /\ [][NextDisconnect]_vars

\* Before the last operation disconnect() had returned and no connect() had
\* been made since.
Disconnected == pre.ws = NoSocket /\ pre.maxReconnectAttempts = 0

\* C24: a frame handled after disconnect() returned invokes no subscriber,
\* settles no call, and leaves authenticated false and the stream state reset.
C24_NoProcessingAfterDisconnect ==
    (IsOp("handleMessage") /\ Disconnected)
    => /\ emitted = <<>> /\ invoked = <<>>
       /\ settled = <<>> /\ pendingRequests = pre.pendingRequests
       /\ ~authenticated
       /\ StreamStateIsReset

----------------------------------------------------------------------------
(* SpecBus: callers subscribe and unsubscribe handlers while events that are *)
(* published to them are received.                                           *)

MaxSubscriptions == 3   \* subscriptions held at a time

\* The event names callers subscribe to.
BusEvents == {"agentStatus", "streamChunk"}

\* The caller calls on(event, handler).
On(event, handler) ==
    LET r == on(Fields, event, handler)
    IN  /\ Len(r.eventHandlers) <= MaxSubscriptions
        /\ Commit(r)
        /\ op' = [name |-> "on", arg |-> [event |-> event, handler |-> handler]]
        /\ pre' = Fields
        /\ UNCHANGED <<requestedPin, sent, ended, timedOut, connVars>>

\* The caller calls off(event, handler).
Off(event, handler) ==
    /\ Commit(off(Fields, event, handler))
    /\ op' = [name |-> "off", arg |-> [event |-> event, handler |-> handler]]
    /\ pre' = Fields
    /\ UNCHANGED <<requestedPin, sent, ended, timedOut, connVars>>

\* Events received: presence (published as agentStatus) and an agent
\* assistant delta (published as streamStart and streamChunk).
BusNotifications ==
    {e \in OtherEvents(NoOrigin) : e.event = "presence"}
    \cup {n \in AgentAssistantEvents(NoOrigin, {<<"a", "b", "a">>}) :
            IsText(n.payload.delta) /\ ~IsText(n.payload.text)}

NextBus ==
    \/ \E event \in BusEvents, handler \in Handlers : On(event, handler)
    \/ \E event \in BusEvents, handler \in Handlers : Off(event, handler)
    \/ \E e \in BusNotifications : HandleNotification(e)

SpecBus == Init /\ [][NextBus]_vars

\* The calls that the publishes of log make to the subscriptions subs: for
\* each publish in turn, each handler subscribed to its event name, in the
\* order of subscription, with the payload published.
RECURSIVE ExpectedInvocations(_, _)
ExpectedInvocations(log, subs) ==
    IF log = <<>> THEN <<>>
    ELSE LET handlers == SelectSeq(subs, LAMBDA x : x.event = Head(log).event)
         IN  [i \in 1..Len(handlers) |->
                [event |-> Head(log).event, handler |-> handlers[i].handler,
                 payload |-> Head(log).payload,
                 caught |-> Throws(handlers[i].handler)]]
             \o ExpectedInvocations(Tail(log), subs)

\* What the last event would have done with no handler subscribed.
WithoutHandlers ==
    handleNotification([pre EXCEPT !.eventHandlers = <<>>], Event, Payload)

\* C25: every publish of an operation calls the handlers subscribed to its
\* event name, each once, in the order of subscription, before the next
\* publish; a handler that throws is called, what it throws is caught, the
\* handlers after it are called, and the publishing code goes on as if no
\* handler were subscribed.
C25_BusDelivery ==
    IsNotification
    => /\ invoked = ExpectedInvocations(emitted, pre.eventHandlers)
       /\ \A i \in DOMAIN invoked : invoked[i].caught = Throws(invoked[i].handler)
       /\ emitted = WithoutHandlers.emitted
       /\ EngineFields(Fields) = EngineFields(WithoutHandlers)
       /\ eventHandlers = pre.eventHandlers

\* C25 witness: hThrows and then h1 are subscribed to streamChunk; a chunk is
\* published: hThrows is called and throws, then h1 is called, and the
\* accumulated text is kept.
C25_Witness ==
    /\ IsNotification /\ Emits("streamChunk")
    /\ Len(invoked) = 2
    /\ invoked[1].handler = "hThrows" /\ invoked[1].caught
    /\ invoked[2].handler = "h1" /\ invoked[2].event = "streamChunk"
    /\ invoked[2].payload = Emissions("streamChunk")[1].payload
    /\ assistantStreamText = <<"a", "b", "a">>

\* The subscriptions held by s, as a set.
Subscribed(s) == {s.eventHandlers[i] : i \in DOMAIN s.eventHandlers}

\* The number of calls of handler for event in the log of invocations.
Calls(log, event, handler) ==
    Cardinality({i \in DOMAIN log : log[i].event = event /\ log[i].handler = handler})

\* The last operation was on or off for the subscription op.arg.
IsSubscription == IsOp("on") \/ IsOp("off")

\* C26: on(e, h) adds the subscription [e, h] unless it is held, off(e, h)
\* removes it, and neither changes another subscription or the order of the
\* others; on for a subscription that is held and off for one that is not
\* change nothing; no subscription is held twice; and a publish of e calls h
\* once if [e, h] is held and not at all if it is not.
C26_Membership ==
    /\ IsOp("on") =>
          /\ Subscribed(Fields) = Subscribed(pre) \cup {op.arg}
          /\ op.arg \in Subscribed(pre) => eventHandlers = pre.eventHandlers
          /\ op.arg \notin Subscribed(pre) => eventHandlers = Append(pre.eventHandlers, op.arg)
    /\ IsOp("off") =>
          /\ Subscribed(Fields) = Subscribed(pre) \ {op.arg}
          /\ op.arg \notin Subscribed(pre) => eventHandlers = pre.eventHandlers
          /\ eventHandlers = SelectSeq(pre.eventHandlers, LAMBDA x : x # op.arg)
    /\ IsSubscription =>
          /\ \A event \in BusEvents \ {op.arg.event} :
                HandlersOf(Fields, event) = HandlersOf(pre, event)
          /\ emitted = <<>> /\ invoked = <<>>
    /\ \A i, j \in DOMAIN eventHandlers : eventHandlers[i] = eventHandlers[j] => i = j
    /\ IsNotification =>
          \A event \in BusEvents \cup {"streamStart"}, handler \in Handlers :
             Calls(invoked, event, handler) =
                IF [event |-> event, handler |-> handler] \in Subscribed(pre)
                THEN Len(Emissions(event))
                ELSE 0

\* C26 witness: h1 is subscribed to streamChunk and h2 to agentStatus alone;
\* a chunk is published and h1 alone is called, once.
C26_Witness ==
    /\ IsNotification /\ EmitsOnce("streamChunk")
    /\ eventHandlers = << [event |-> "streamChunk", handler |-> "h1"],
                          [event |-> "agentStatus", handler |-> "h2"] >>
    /\ Len(invoked) = 1 /\ invoked[1].handler = "h1"

----------------------------------------------------------------------------
(* SpecCodec: one connection, its handshake, calls, a pin, and frames of     *)
(* every kind: events, responses, frames of another type and data that is    *)
(* not JSON.                                                                  *)

\* Frames that are neither an event nor a response: data that is not JSON, a
\* request frame, and a JSON value without a type.
IgnoredFrames ==
    {NotJSON, [type |-> "req", id |-> 1, method |-> "connect"], [type |-> UNDEF]}

CodecFrames ==
    {f \in ResponseFrames(1..MaxRequests) : f.ok} \cup EventFrames \cup IgnoredFrames

\* The caller pins a session.
Pin(key) ==
    /\ primarySessionKey # key
    /\ SetPrimarySessionKey(key)

NextCodec ==
    \/ ConnectOnce
    \/ \E i \in 1..MaxSockets : SocketOpens(i)
    \/ \E method \in Methods : Call(method)
    \/ Pin("s1")
    \/ \E i \in 1..MaxSockets, frame \in CodecFrames : Receive(i, frame)

SpecCodec == Init /\ [][NextCodec]_vars

\* The last operation handled a frame that is not an event or a response.
IgnoredFrame == IsOp("handleMessage") /\ Frame \in IgnoredFrames

\* C27: a frame that is not JSON, or whose type is neither 'event' nor 'res',
\* calls no subscriber, publishes nothing, settles no promise and changes no
\* field of the client.
C27_IgnoredFrame ==
    IgnoredFrame
    => /\ emitted = <<>> /\ invoked = <<>>
       /\ settled = <<>>
       /\ NothingChanged

\* C27 witness: data that is not JSON arrives while the client is
\* authenticated, a session is pinned, a call is pending and a response is
\* being streamed: all of it is kept.
C27_Witness ==
    /\ IgnoredFrame /\ Frame = NotJSON
    /\ authenticated /\ pendingRequests # {}
    /\ assistantStreamText # <<>> /\ streamStarted
    /\ primarySessionKey = "s1"
    /\ sockets[Sock].promise = "resolve"

----------------------------------------------------------------------------
(* The cumulative convention, checked under SpecText *)

\* A cumulative report with text arrived while text was held for the stream.
CumulativeOnText ==
    /\ IsNotification /\ IsCumulativeReport
    /\ pre.assistantStreamText # <<>> /\ Incoming # <<>>

\* The current block before the last event: the accumulated text from
\* currentBlockOffset on.
CurrentBlock ==
    SubSeq(pre.assistantStreamText, pre.currentBlockOffset + 1,
           Len(pre.assistantStreamText))

\* A cumulative report whose text is not an extension of the text emitted so
\* far for the response.
Regression == CumulativeOnText /\ ~StartsWith(Incoming, pre.assistantStreamText)

\* The payload of a chunk that tells subscribers to replace what they display
\* by text.
IsReplaceChunk(payload, text) ==
    /\ "kind" \in DOMAIN payload
    /\ payload.kind = "replace"
    /\ payload.text = text

----------------------------------------------------------------------------
(* SpecBlock: cumulative reports of both sources whose texts may contain the *)
(* separator, with the events that end a response.                           *)

\* One or two letters, and two such texts around a blank line.
BlockTexts ==
    PlainTexts \cup
    {t \in {x \o separator \o y : x \in PlainTexts, y \in PlainTexts} : Len(t) <= MaxText}

BlockNotifications ==
    {[event |-> "agent",
      payload |-> [Payload0 EXCEPT !.stream = "assistant", !.text = t]] : t \in BlockTexts}
    \cup {[event |-> "chat",
           payload |-> [Payload0 EXCEPT !.state = "delta", !.delta = t]] : t \in BlockTexts}
    \cup AgentLifecycleEvents(NoOrigin, {<<"end", UNDEF>>})
    \cup {[event |-> "chat", payload |-> [Payload0 EXCEPT !.state = "final"]]}

NextBlock == \E e \in BlockNotifications : HandleNotification(e)

SpecBlock == Init /\ [][NextBlock]_vars

\* C29: a cumulative report whose text extends the current block emits the
\* part of its text beyond the current block (nothing when there is none),
\* and the accumulated text becomes the text before the block followed by the
\* incoming text, whether or not the incoming text extends the whole
\* accumulated text too.
C29_BlockRuleFirst ==
    (CumulativeOnText /\ StartsWith(Incoming, CurrentBlock))
    => /\ ChunkTexts = IF Incoming = CurrentBlock THEN <<>>
                       ELSE << SubSeq(Incoming, Len(CurrentBlock) + 1, Len(Incoming)) >>
       /\ assistantStreamText =
             SubSeq(pre.assistantStreamText, 1, pre.currentBlockOffset) \o Incoming

\* C30: a cumulative report whose text is a proper prefix of the current
\* block (an older report of the block, delivered late or again) emits no
\* chunk and leaves the accumulated text and the block offset as they were.
C30_StaleReportDropped ==
    (/\ CumulativeOnText
     /\ StartsWith(CurrentBlock, Incoming) /\ Incoming # CurrentBlock)
    => /\ ChunkTexts = <<>>
       /\ assistantStreamText = pre.assistantStreamText
       /\ currentBlockOffset = pre.currentBlockOffset

----------------------------------------------------------------------------
(* Sockets the client owns *)

\* Socket i is live for c: the handlers that connect() attached are still
\* attached and the socket can still deliver an event to them.
Live(c, i) == c.sockets[i].handlers /\ c.sockets[i].readyState # "CLOSED"

LiveSockets(c) == {i \in DOMAIN c.sockets : Live(c, i)}

\* C31: at most one socket is live for the client at any time, and the closure
\* of a socket that a newer one replaced neither clears authenticated nor
\* schedules a reconnection.
C31_OneLiveSocket ==
    /\ Cardinality(LiveSockets(Client)) <= 1
    /\ (IsOp("onclose") /\ pre.ws # NoSocket /\ op.arg # pre.ws)
          => /\ authenticated = pre.authenticated
             /\ reconnectTimers = pre.reconnectTimers

\* The last operation handled a frame inside ws.onmessage (a string or an
\* ArrayBuffer): no decode ended.
HandledOnArrival == IsOp("handleMessage") /\ decoding = pre.decoding

\* The Blob frames that arrived on socket i before the last operation and
\* were not handled yet.
Waiting(i) == {d \in pre.decoding : d.sock = i}

\* C32: frames of a connection are handled in their arrival order: when a
\* frame is handled, no frame that arrived earlier on that connection is still
\* waiting to be handled.
C32_ArrivalOrder ==
    HandledOnArrival => Waiting(Sock) = {}

----------------------------------------------------------------------------
(* SpecTrust: a client for a secure or a plain endpoint; sockets open, fail  *)
(* or close, reconnection timers fire and the handshake runs.                *)

Urls == {SecureUrl, PlainUrl}

InitTrust == \E u \in Urls : Constructed(u)

\* The connection of socket i fails.  The socket is closed, then its error
\* event and its close event are dispatched one after the other, with no
\* other handler in between: ws.onerror, then ws.onclose, when attached.
SocketFails(i) ==
    /\ i \in DOMAIN sockets
    /\ sockets[i].readyState # "CLOSED"
    /\ LET c1 == [Client EXCEPT !.sockets[i].readyState = "CLOSED"]
       IN  Do("onerror", i, IF sockets[i].handlers THEN onclose(onerror(c1, i)) ELSE c1)

NextTrust ==
    \/ ConnectOnce
    \/ \E k \in 1..MaxSockets : ReconnectTimerFires(k)
    \/ \E i \in 1..MaxSockets : SocketOpens(i)
    \/ \E i \in 1..MaxSockets : SocketFails(i)
    \/ \E i \in 1..MaxSockets : SocketCloses(i)
    \/ \E i \in 1..MaxSockets, frame \in HelloFrames \cup {ChallengeFrame} :
          Receive(i, frame)

SpecTrust == InitTrust /\ [][NextTrust]_vars

\* The last operation was a socket failure that was classified as a trust
\* failure: certError was emitted and connect() was rejected with the
\* certificate message.
TrustFailure ==
    /\ IsOp("onerror")
    /\ \E k \in DOMAIN emitted :
          /\ emitted[k].event = "certError"
          /\ emitted[k].payload.httpsUrl = HttpsUrl(url)
    /\ \E k \in DOMAIN settled :
          /\ settled[k].promise = <<"connect", op.arg>>
          /\ settled[k].kind = "reject"
          /\ settled[k].value = CertificateError(HttpsUrl(url))

\* C33: a trust failure is not retried: the error and the close event of the
\* failed socket schedule no reconnection attempt.
C33_TrustFailureNotRetried ==
    TrustFailure => reconnectTimers = pre.reconnectTimers

\* Socket i has its final outcome: it is closed, and its error and close
\* events, if any, were dispatched.  No handler of a closed socket runs again.
HasFinalOutcome(i) == sockets[i].readyState = "CLOSED"

\* C34: the promise that connect() returned for a socket is settled once the
\* socket has its final outcome: resolved by the hello-ok response, rejected
\* by an error or by a closure before authentication completed.
C34_ConnectSettles ==
    \A i \in DOMAIN sockets :
        HasFinalOutcome(i) => sockets[i].promise \in {"resolve", "reject"}

----------------------------------------------------------------------------
(* Handshake order *)

\* The request frames that the last operation sent on socket i.
NewlySent(i) ==
    IF i \in DOMAIN pre.sockets THEN sockets[i].sent \ pre.sockets[i].sent
    ELSE sockets[i].sent

\* The last operation handled a connect.challenge event.
IsChallenge == IsOp("handleMessage") /\ Frame = ChallengeFrame

\* One connect request, with an identifier above all allocated before, was
\* sent on the socket that received the challenge, and no other frame.
OneConnectRequest ==
    /\ NewlySent(Sock) = {[id |-> pre.requestId + 1, method |-> "connect"]}
    /\ \A i \in DOMAIN sockets : i # Sock => NewlySent(i) = {}

\* The connect request was sent on socket i before the last operation.
ConnectRequested(i) == \E f \in pre.sockets[i].sent : f.method = "connect"

\* C35: the client becomes authenticated only by a response on a connection
\* on which the connect request was sent in answer to a challenge; each
\* challenge sends exactly one connect request with a fresh identifier on its
\* connection and emits nothing; authenticated is false after the closure of
\* the current socket and after disconnect().
C35_HandshakeOrder ==
    /\ (IsConnectionOp /\ authenticated /\ ~pre.authenticated)
          => IsResponse /\ ConnectRequested(Sock)
    /\ IsChallenge => OneConnectRequest /\ emitted = <<>> /\ settled = <<>>
    /\ (IsOp("onclose") /\ op.arg = pre.ws) => ~authenticated
    /\ IsOp("disconnect") => ~authenticated

----------------------------------------------------------------------------
(* Append-only output *)

----------------------------------------------------------------------------
(* SpecLifecycle: one connection made by the caller, its closures and        *)
(* reconnections, disconnect(), and the events of a response received on     *)
(* every socket.                                                             *)

LifecycleFrames ==
    {[type |-> "event", event |-> e.event, payload |-> e.payload] :
        e \in {n \in ChatDeltaEvents(NoOrigin, {<<"a">>}) : IsText(n.payload.delta)}
              \cup {n \in ChatFinalEvents(NoOrigin, {}) : ~n.payload.message}
              \cup {n \in AgentAssistantEvents(NoOrigin, {<<"a">>}) :
                       IsText(n.payload.delta) /\ ~IsText(n.payload.text)}
              \cup AgentToolEvents(NoOrigin, {d \in ToolShapes : d.dataPhase = "start"})
              \cup AgentLifecycleEvents(NoOrigin, {<<"start", UNDEF>>, <<"end", UNDEF>>})
              \cup {n \in OtherEvents(NoOrigin) : n.event = "presence"}}

NextLifecycle ==
    \/ ConnectOnce
    \/ \E k \in 1..MaxSockets : ReconnectTimerFires(k)
    \/ \E i \in 1..MaxSockets : SocketOpens(i)
    \/ \E i \in 1..MaxSockets : SocketCloses(i)
    \/ Disconnect
    \/ \E i \in 1..MaxSockets, frame \in LifecycleFrames : Receive(i, frame)

SpecLifecycle == Init /\ [][NextLifecycle]_vars

----------------------------------------------------------------------------
(* SpecCalls: calls, their timeouts and their responses across closures,     *)
(* reconnections and disconnect().                                           *)

MaxCalls == 2   \* calls registered in SpecCalls

\* The answers of the gateway to a call: a payload or an error.  hello-ok is
\* the payload of the answer to the connect request, which is not a call.
CallAnswers ==
    {f \in ResponseFrames(1..MaxCalls) : f.payload.type # "hello-ok" /\ f.errorMessage # "boom"}

\* The timeouts that the calls of SpecCalls arm.
CallTimeouts == {t \in Requests : t.id <= MaxCalls}

\* The caller's connect(), made once.
ConnectFirst == sockets = <<>> /\ Connect

\* call(method) while SpecCalls has calls left.
CallWithin(method) == requestId < MaxCalls /\ Call(method)

NextCalls ==
    \/ ConnectFirst
    \/ \E k \in 1..MaxSockets : ReconnectTimerFires(k)
    \/ \E i \in 1..MaxSockets : SocketOpens(i)
    \/ \E i \in 1..MaxSockets : SocketCloses(i)
    \/ Disconnect
    \/ \E method \in Methods : CallWithin(method)
    \/ \E t \in CallTimeouts : RequestTimeout(t)
    \/ \E i \in 1..MaxSockets, frame \in CallAnswers : Receive(i, frame)

SpecCalls == Init /\ [][NextCalls]_vars

\* The ids of the registered calls that the last operation settled, one per
\* resolve or reject call.
CallsSettled ==
    [k \in 1..Len(SelectSeq(settled, LAMBDA x : x.promise[1] = "call" /\ x.promise[2] # 0))
       |-> SelectSeq(settled, LAMBDA x : x.promise[1] = "call" /\ x.promise[2] # 0)[k].promise[2]]

IdsOf(entries) == {p.id : p \in entries}

----------------------------------------------------------------------------
(* Rejected events *)

\* C39: a chat or agent event that carries a non-empty string sessionKey
\* other than the pin set when it is processed leaves the stream fields and
\* the pin as they were and emits one subagentDetected and nothing else,
\* whatever else it carries.
C39_RejectedEventFrame ==
    (IsNotification /\ Event \in {"chat", "agent"} /\ PinnedAgainst)
    => /\ EngineFields(Fields) = EngineFields(pre)
       /\ primarySessionKey = pre.primarySessionKey
       /\ delivered = pre.delivered
       /\ emitted = << [event |-> "subagentDetected",
                        payload |-> [sessionKey |-> Payload.sessionKey]] >>

\* While a response of the pinned session 's2' is streaming with text, the
\* lifecycle end of run 'r1' of session 's1' is rejected.
C39_Witness ==
    /\ IsAgent("lifecycle") /\ Payload.dataPhase = "end"
    /\ Payload.sessionKey = "s1" /\ Payload.runId = "r1"
    /\ pre.primarySessionKey = "s2"
    /\ pre.streamStarted /\ pre.assistantStreamText # <<>>
    /\ streamStarted /\ assistantStreamText = pre.assistantStreamText

----------------------------------------------------------------------------
(* SpecAgent: responses made of agent events alone: assistant, tool and      *)
(* lifecycle events, with and without a session key and a run id.            *)

AgentNotifications ==
    AgentAssistantEvents(Origins, {<<"a">>, <<"a", "b">>})
    \cup AgentToolEvents(Origins, ToolShapes)
    \cup AgentLifecycleEvents(Origins, LifecycleShapes)

NextAgent == \E e \in AgentNotifications : HandleNotification(e)

SpecAgent == Init /\ [][NextAgent]_vars

\* The lifecycle event reports the completion of the run.
IsCompletion(payload) ==
    \/ payload.dataPhase \in {"end", "error"}
    \/ payload.dataState \in {"complete", "error"}

\* C40: when a stream is started, an accepted agent lifecycle event that
\* reports completion emits streamEnd and resets the stream state, whether
\* the stream was started by an assistant event or by a tool event.
C40_AgentStreamEnded ==
    (IsAgent("lifecycle") /\ Accepted /\ IsCompletion(Payload) /\ pre.streamStarted)
    => EmitsOnce("streamEnd") /\ StreamStateIsReset

====
